---------------------------- MODULE Spec2Model ----------------------------
(***************************************************************************)
(* Plan Execution Engine of result-interpreter:                            *)
(*   - TreeSimplifier (app/services/plans/tree_simplifier.py): tree_to_dag, *)
(*     is_reachable, can_merge, merge_nodes, simplify, DAG.topological_sort *)
(*   - PlanExecutorInterpreter (app/services/interpreter/plan_execute.py):  *)
(*     __init__ (execution order), _initialize_node_states, execute,        *)
(*     _can_execute_node, _execute_single_node                              *)
(*   - TaskExecutor (app/services/interpreter/task_executer.py): the        *)
(*     code-fix retry loops of _execute_code_task and                       *)
(*     _execute_data_summary_task                                           *)
(*                                                                         *)
(* Iteration over Python dicts and sets of node ids is modelled in          *)
(* ascending id order (tree.nodes is keyed by database id; small ints hash  *)
(* to themselves).                                                          *)
(***************************************************************************)
EXTENDS Integers, Sequences, FiniteSets, TLC

(* ------------------------------ bounds --------------------------------- *)
\* number of task nodes of the input plan tree
NumNodes == 3
\* largest number of explicit dependency edges in the input plan
MaxDeps == 2
\* largest number of candidate pairs returned by find_similar_pairs
MaxPairs == 2

\* largest number of execute() runs on the same plan
MaxRuns == 2
\* sandbox calls: the timeout and the running time of the code, in polling intervals
MaxTimeout == 2
MaxRuntime == 4
\* a batch of AsyncTaskExecutor: tasks submitted and permits of the semaphore
MaxTasks == 3
MaxConcurrent == 2
\* a simulation run: calls made on it and turns its configuration allows
MaxCalls == 3
MaxTurns == 2

Nodes == 1..NumNodes
\* adjacency key of the root level (Python None)
NoParent == 0

VARIABLES
    \* ---- PlanTree (input, loaded from the repository) ----
    tree_adjacency,     \* set of <<parent_id, child_id>>; parent_id = NoParent for roots
    tree_deps,          \* PlanNode.dependencies, node id -> set of node ids
    \* ---- DAG ----
    dag_nodes,          \* keys of DAG.nodes
    parent_ids,         \* DAGNode.parent_ids
    child_ids,          \* DAGNode.child_ids
    dependencies,       \* DAGNode.dependencies
    merge_map,          \* DAG.merge_map: removed id -> surviving id
    \* ---- TreeSimplifier.simplify ----
    s_pc,               \* "start", "pairs", "loop", "done", "off"
    similar_pairs,      \* candidate pairs, already sorted by descending score
    pair_merge_cache,   \* (min_id, max_id) -> answer of should_merge
    s_iter,             \* iterations of the merge loop started so far
    s_idx,              \* position in similar_pairs within the current iteration
    should_merge_calls, \* cache keys should_merge was asked for, in call order
    last_fold           \* the last fold performed: <<keep_id, remove_id>>, or <<>>

treeVars == <<tree_adjacency, tree_deps>>
dagVars == <<dag_nodes, parent_ids, child_ids, dependencies, merge_map>>
simpVars == <<s_pc, similar_pairs, pair_merge_cache, s_iter, s_idx,
              should_merge_calls, last_fold>>

VARIABLES
    \* ---- repository (persisted across runs) ----
    db_status,          \* PlanNode.status text of every node
    db_result,          \* PlanNode.execution_result of every node, or NoResult
    disk_files,         \* files present in the output directory
    \* ---- one PlanExecutorInterpreter ----
    e_pc,               \* "off", "new", "ready", "loop", "running", "done", "aborted"
    topo_order,         \* self._topo_order
    node_status,        \* self._node_status
    node_records,       \* self._node_records
    all_generated_files,\* self._all_generated_files (a list)
    e_idx,              \* position of the loop of execute() in _topo_order
    invoked,            \* node ids task_executor.execute was called for in this run
    start_status,       \* the persisted statuses when this run began
    summary,            \* the PlanExecutionResult returned by this run, or NoSummary
    prev_summary,       \* the PlanExecutionResult of the previous run, or NoSummary
    run                 \* number of the current run

repoVars == <<db_status, db_result, disk_files>>
execVars == <<e_pc, topo_order, node_status, node_records, all_generated_files,
              e_idx, invoked, start_status, summary, prev_summary, run>>

VARIABLES
    \* ---- one code-fix retry loop of TaskExecutor ----
    r_pc,               \* "off", "generate", "sandbox", "fix", "rethink", "returned", "raised"
    r_task,             \* "code" (_execute_code_task) or "data_summary"
    max_fix_attempts,   \* the max_fix_attempts parameter
    attempt,            \* the loop variable
    total_attempts,     \* total_attempts
    sandbox_calls,      \* calls of docker_interpreter.run_python_code so far
    error_history,      \* error_history: one entry per failed attempt
    requests,           \* requests sent to the code-generation collaborator in the loop
    exec_result,        \* status of the last sandbox result, or "none"
    current_code,       \* current_code: 0 is the empty text, n > 0 a non-empty snippet
    r_result            \* the TaskExecutionResult returned, or NoResult

retryVars == <<r_pc, r_task, max_fix_attempts, attempt, total_attempts, sandbox_calls,
               error_history, requests, exec_result, current_code, r_result>>

VARIABLES
    \* ---- what a run did, kept to state its properties ----
    update_log,         \* repo.update_task calls of the run: <<task_id, status>>, in call order
    node_calls          \* node id -> sandbox calls made for it and how many of them failed

obsVars == <<update_log, node_calls>>

VARIABLES
    \* ---- one call of run_python_code of a sandbox backend ----
    b_pc,               \* position of the call
    b_backend,          \* "docker" (DockerCodeInterpreter) or "venv" (VenvCodeInterpreter)
    b_timeout,          \* self.timeout
    b_runtime,          \* how long the submitted code runs when nobody stops it
    b_exit_code,        \* the exit code the code ends with when nobody stops it
    b_clock,            \* time elapsed since the code was started
    client,             \* docker: self.client is set
    daemon_up,          \* docker: the daemon answers API requests
    container,          \* the container or subprocess: "none", "running", "exited", "removed"
    launched,           \* the call started a container or subprocess
    temp_file,          \* venv: the temporary source file exists
    b_status            \* status of the CodeExecutionResult returned

boxVars == <<b_pc, b_backend, b_timeout, b_runtime, b_exit_code, b_clock, client,
             daemon_up, container, launched, temp_file, b_status>>

VARIABLES
    \* ---- one execute_tasks_batch call of an AsyncTaskExecutor ----
    max_concurrent,     \* self.max_concurrent
    semaphore,          \* value of self.semaphore: the permits left
    task_valid,         \* task -> the task object has a format _extract_task_info accepts
    a_pc,               \* task -> position of its execute_task coroutine
    a_out,              \* task -> what gather received from the coroutine
    batch_pc,           \* position of execute_tasks_batch
    processed_results   \* the list execute_tasks_batch returns

asyncVars == <<max_concurrent, semaphore, task_valid, a_pc, a_out, batch_pc,
               processed_results>>

VARIABLES
    \* ---- one simulation run of a SimulationRegistry and the calls made on it ----
    sim_status,         \* run.status
    turns,              \* run.turns: the judge's alignment verdict of every recorded turn
    max_turns,          \* run.config.max_turns
    stop_on_misalignment, \* run.config.stop_on_misalignment
    c_kind,             \* call -> "advance", "auto" or "cancel"
    c_pc,               \* call -> position of the call
    sim_serial          \* the caller waits for a call to end before making the next one

simVars == <<sim_status, turns, max_turns, stop_on_misalignment, c_kind, c_pc, sim_serial>>

asyncIdle ==
    /\ max_concurrent = 0
    /\ semaphore = 0
    /\ task_valid = <<>>
    /\ a_pc = <<>>
    /\ a_out = <<>>
    /\ batch_pc = "off"
    /\ processed_results = <<>>

simIdle ==
    /\ sim_status = "none"
    /\ turns = <<>>
    /\ max_turns = 0
    /\ stop_on_misalignment = FALSE
    /\ c_kind = <<>>
    /\ c_pc = <<>>
    /\ sim_serial = FALSE

\* the variables an action of one component leaves alone
simpOthers == <<repoVars, execVars, retryVars, obsVars, boxVars, asyncVars, simVars>>
execOthers == <<simpVars, retryVars, obsVars, boxVars, asyncVars, simVars>>
retryOthers == <<treeVars, dagVars, simpVars, repoVars, execVars, obsVars, boxVars,
                 asyncVars, simVars>>
boxOthers == <<treeVars, dagVars, simpVars, repoVars, execVars, retryVars, obsVars,
               asyncVars, simVars>>

(* ------------------------------ helpers -------------------------------- *)
Min(a, b) == IF a <= b THEN a ELSE b
Max(a, b) == IF a >= b THEN a ELSE b

RECURSIVE SortedSeq(_)
\* sorted(S): the elements of a set of ints in ascending order
SortedSeq(S) ==
    IF S = {} THEN <<>>
    ELSE LET m == CHOOSE x \in S : \A y \in S : x <= y
         IN <<m>> \o SortedSeq(S \ {m})

SeqToSet(s) == {s[i] : i \in 1..Len(s)}

RECURSIVE Closure(_, _, _)
\* the nodes reachable from the set `frontier' in one or more steps of succ
Closure(succ, frontier, seen) ==
    LET nxt == UNION {succ[n] : n \in frontier} \ seen
    IN IF nxt = {} THEN seen ELSE Closure(succ, nxt, seen \cup nxt)

ReachPlus(succ, n) == Closure(succ, {n}, {})

\* succ restricted to the node set ns has a cycle
HasCycle(succ, ns) == \E n \in ns : n \in ReachPlus(succ, n)

(* ------------------------------ PlanTree ------------------------------- *)
\* a well-formed tree: every node hangs under exactly one parent (or the root
\* level); ids are assigned on creation and a task is created under an
\* existing parent, so a parent's id is lower than its children's
ParentFns == {p \in [Nodes -> Nodes \cup {NoParent}] : \A n \in Nodes : p[n] < n}

AdjacencyOf(p) == {<<p[n], n>> : n \in Nodes}

RECURSIVE SumCard(_, _)
SumCard(f, S) ==
    IF S = {} THEN 0
    ELSE LET x == CHOOSE y \in S : TRUE
         IN Cardinality(f[x]) + SumCard(f, S \ {x})

\* dependency lists: at most MaxDeps edges in all, no node lists itself
DepFns ==
    {d \in [Nodes -> SUBSET Nodes] :
        /\ SumCard(d, Nodes) <= MaxDeps
        /\ \A n \in Nodes : n \notin d[n]}

TreeChildren(n) == {e[2] : e \in {x \in tree_adjacency : x[1] = n}}

\* the combined graph of the claim: n -> its children and n -> its dependencies
TreeCombined == [n \in Nodes |-> TreeChildren(n) \cup (tree_deps[n] \cap Nodes)]

(* ------------------------- TreeSimplifier ------------------------------ *)
\* tree_to_dag: nodes copied with their dependencies, parent/child sets from
\* the adjacency; entries whose parent or child is not a node are ignored
TreeToDagChildren(n) ==
    {e[2] : e \in {x \in tree_adjacency :
                     x[1] = n /\ x[1] # NoParent /\ x[1] \in Nodes /\ x[2] \in Nodes}}

TreeToDagParents(n) ==
    {e[1] : e \in {x \in tree_adjacency :
                     x[2] = n /\ x[1] # NoParent /\ x[1] \in Nodes /\ x[2] \in Nodes}}

RECURSIVE BFS(_, _, _)
\* the while loop of is_reachable: queue is a list, visited a set
BFS(queue, visited, to_id) ==
    IF queue = <<>> THEN FALSE
    ELSE LET current == Head(queue)
             rest == Tail(queue)
         IN IF current = to_id THEN TRUE
            ELSE IF current \in visited THEN BFS(rest, visited, to_id)
            ELSE LET v2 == visited \cup {current}
                     ext == IF current \in dag_nodes
                            THEN SortedSeq(child_ids[current] \ v2)
                            ELSE <<>>
                 IN BFS(rest \o ext, v2, to_id)

is_reachable(from_id, to_id) ==
    IF from_id = to_id THEN TRUE ELSE BFS(<<from_id>>, {}, to_id)

\* a can_merge that lets a node be merged with itself
can_merge_of_same_node(node1_id, node2_id) ==
    /\ node1_id \in dag_nodes
    /\ node2_id \in dag_nodes
    /\ ~ (node2_id \in child_ids[node1_id] \/ node1_id \in child_ids[node2_id])
    /\ ~ (node2_id \in parent_ids[node1_id] \/ node1_id \in parent_ids[node2_id])
    /\ node1_id = node2_id \/ ~ is_reachable(node1_id, node2_id)
    /\ node1_id = node2_id \/ ~ is_reachable(node2_id, node1_id)
    /\ node2_id \notin dependencies[node1_id]
    /\ node1_id \notin dependencies[node2_id]

can_merge(node1_id, node2_id) ==
    /\ node1_id \in dag_nodes
    /\ node2_id \in dag_nodes
    /\ node1_id # node2_id
    /\ ~ (node2_id \in child_ids[node1_id] \/ node1_id \in child_ids[node2_id])
    /\ ~ (node2_id \in parent_ids[node1_id] \/ node1_id \in parent_ids[node2_id])
    /\ ~ is_reachable(node1_id, node2_id)
    /\ ~ is_reachable(node2_id, node1_id)
    /\ node2_id \notin dependencies[node1_id]
    /\ node1_id \notin dependencies[node2_id]

\* references to remove_id rewritten to keep_id in a node other than the two
Rewrite(S, keep_id, remove_id) ==
    IF remove_id \in S THEN (S \ {remove_id}) \cup {keep_id} ELSE S

\* merge_nodes(dag, keep_id, remove_id) without force: TRUE iff it merges
merge_nodes_ok(keep_id, remove_id) ==
    /\ keep_id \in dag_nodes
    /\ remove_id \in dag_nodes
    /\ can_merge(keep_id, remove_id)

\* a merge that leaves the Merge Map as it was
merge_nodes_unrecorded(keep_id, remove_id) ==
    LET rest == dag_nodes \ {remove_id}
    IN /\ dag_nodes' = rest
       /\ parent_ids' = [n \in rest |->
             IF n = keep_id
             THEN (parent_ids[keep_id] \cup parent_ids[remove_id]) \ {keep_id, remove_id}
             ELSE Rewrite(parent_ids[n], keep_id, remove_id)]
       /\ child_ids' = [n \in rest |->
             IF n = keep_id
             THEN (child_ids[keep_id] \cup child_ids[remove_id]) \ {keep_id, remove_id}
             ELSE Rewrite(child_ids[n], keep_id, remove_id)]
       /\ dependencies' = [n \in rest |->
             IF n = keep_id
             THEN dependencies[keep_id] \cup dependencies[remove_id]
             ELSE Rewrite(dependencies[n], keep_id, remove_id)]
       /\ merge_map' = merge_map

\* a merge that records the mapping and leaves both nodes in the DAG
merge_nodes_keeps_removed_node(keep_id, remove_id) ==
    /\ UNCHANGED <<dag_nodes, parent_ids, child_ids, dependencies>>
    /\ merge_map' = [r \in DOMAIN merge_map \cup {remove_id} |->
          IF r = remove_id THEN keep_id ELSE merge_map[r]]

\* a merge that does not rewrite the other nodes' references to remove_id
merge_nodes_without_rewrite(keep_id, remove_id) ==
    LET rest == dag_nodes \ {remove_id}
    IN /\ dag_nodes' = rest
       /\ parent_ids' = [n \in rest |->
             IF n = keep_id
             THEN (parent_ids[keep_id] \cup parent_ids[remove_id]) \ {keep_id, remove_id}
             ELSE parent_ids[n]]
       /\ child_ids' = [n \in rest |->
             IF n = keep_id
             THEN (child_ids[keep_id] \cup child_ids[remove_id]) \ {keep_id, remove_id}
             ELSE child_ids[n]]
       /\ dependencies' = [n \in rest |->
             IF n = keep_id
             THEN dependencies[keep_id] \cup dependencies[remove_id]
             ELSE dependencies[n]]
       /\ merge_map' = [r \in DOMAIN merge_map \cup {remove_id} |->
             IF r = remove_id THEN keep_id ELSE merge_map[r]]

\* the DAG after a successful merge_nodes
merge_nodes(keep_id, remove_id) ==
    LET rest == dag_nodes \ {remove_id}
    IN /\ dag_nodes' = rest
       /\ parent_ids' = [n \in rest |->
             IF n = keep_id
             THEN (parent_ids[keep_id] \cup parent_ids[remove_id]) \ {keep_id, remove_id}
             ELSE Rewrite(parent_ids[n], keep_id, remove_id)]
       /\ child_ids' = [n \in rest |->
             IF n = keep_id
             THEN (child_ids[keep_id] \cup child_ids[remove_id]) \ {keep_id, remove_id}
             ELSE Rewrite(child_ids[n], keep_id, remove_id)]
       /\ dependencies' = [n \in rest |->
             IF n = keep_id
             THEN dependencies[keep_id] \cup dependencies[remove_id]
             ELSE Rewrite(dependencies[n], keep_id, remove_id)]
       /\ merge_map' = [r \in DOMAIN merge_map \cup {remove_id} |->
             IF r = remove_id THEN keep_id ELSE merge_map[r]]


\* tree_to_dag(tree), line 747 of simplify and line 167 of the executor
tree_to_dag ==
    /\ dag_nodes' = Nodes
    /\ parent_ids' = [n \in Nodes |-> TreeToDagParents(n)]
    /\ child_ids' = [n \in Nodes |-> TreeToDagChildren(n)]
    /\ dependencies' = [n \in Nodes |-> tree_deps[n]]
    /\ merge_map' = <<>>

\* default of simplify's max_iterations parameter
MaxIterationsDefault == 100

PairSeqs == UNION {[1..k -> Nodes \X Nodes] : k \in 0..MaxPairs}

\* a cache key that keeps the two ids in the order the pair lists them
CacheKey_as_listed(pr) == pr

\* line 773: cache_key = (min(node_id_1, node_id_2), max(node_id_1, node_id_2))
CacheKey(pr) == <<Min(pr[1], pr[2]), Max(pr[1], pr[2])>>

\* simplify, step 1: dag = self.tree_to_dag(tree)
SimplifyBuild ==
    /\ s_pc = "start"
    /\ tree_to_dag
    /\ s_pc' = "pairs"
    /\ UNCHANGED <<similar_pairs, pair_merge_cache, s_iter, s_idx,
                   should_merge_calls, last_fold>>
    /\ UNCHANGED <<treeVars, simpOthers>>

\* simplify, step 2: the oracle's find_similar_pairs answer, sorted by
\* descending score; an empty answer returns the DAG at once
FindSimilarPairs ==
    /\ s_pc = "pairs"
    /\ \E ps \in PairSeqs :
          /\ similar_pairs' = ps
          /\ s_pc' = IF ps = <<>> THEN "done" ELSE "loop"
          /\ s_iter' = IF ps = <<>> THEN 0 ELSE 1
    /\ s_idx' = 1
    /\ UNCHANGED <<pair_merge_cache, should_merge_calls, last_fold>>
    /\ UNCHANGED <<treeVars, dagVars, simpOthers>>

\* `merged = True; break' followed by the next round of `for _ in range(max_iterations)'
AfterMerge ==
    /\ s_idx' = 1
    /\ IF s_iter < MaxIterationsDefault
       THEN s_iter' = s_iter + 1 /\ s_pc' = "loop"
       ELSE s_iter' = s_iter /\ s_pc' = "done"

\* lines 791-797: keep the lower id, remove the higher, merge_nodes decides
TryMerge(pr) ==
    LET keep_id == Min(pr[1], pr[2])
        remove_id == Max(pr[1], pr[2])
    IN IF merge_nodes_ok(keep_id, remove_id)
       THEN /\ merge_nodes(keep_id, remove_id)
            /\ last_fold' = <<keep_id, remove_id>>
            /\ AfterMerge
       ELSE /\ UNCHANGED <<dagVars, last_fold, s_iter, s_pc>>
            /\ s_idx' = s_idx + 1

InPair == s_pc = "loop" /\ s_idx <= Len(similar_pairs)

PairPresent(pr) == pr[1] \in dag_nodes /\ pr[2] \in dag_nodes

\* lines 769-770 and 776-779: a pair with a removed node, or one already
\* answered negatively, is passed over
SkipPair ==
    /\ InPair
    /\ LET pr == similar_pairs[s_idx]
       IN \/ ~ PairPresent(pr)
          \/ /\ CacheKey(pr) \in DOMAIN pair_merge_cache
             /\ ~ pair_merge_cache[CacheKey(pr)]
    /\ s_idx' = s_idx + 1
    /\ UNCHANGED <<s_pc, similar_pairs, pair_merge_cache, s_iter,
                   should_merge_calls, last_fold>>
    /\ UNCHANGED <<treeVars, dagVars, simpOthers>>

\* lines 780-797: the pair is not cached, should_merge is asked and answers
AskShouldMerge ==
    /\ InPair
    /\ LET pr == similar_pairs[s_idx]
           key == CacheKey(pr)
       IN /\ PairPresent(pr)
          /\ key \notin DOMAIN pair_merge_cache
          /\ \E should \in BOOLEAN :
                /\ pair_merge_cache' = [k \in DOMAIN pair_merge_cache \cup {key} |->
                                          IF k = key THEN should ELSE pair_merge_cache[k]]
                /\ should_merge_calls' = Append(should_merge_calls, key)
                /\ IF should
                   THEN TryMerge(pr)
                   ELSE /\ s_idx' = s_idx + 1
                        /\ UNCHANGED <<dagVars, last_fold, s_iter, s_pc>>
    /\ UNCHANGED similar_pairs
    /\ UNCHANGED <<treeVars, simpOthers>>

\* lines 776-777 and 791-797: the cached answer is positive, the merge is retried
MergeCached ==
    /\ InPair
    /\ LET pr == similar_pairs[s_idx]
           key == CacheKey(pr)
       IN /\ PairPresent(pr)
          /\ key \in DOMAIN pair_merge_cache
          /\ pair_merge_cache[key]
          /\ TryMerge(pr)
    /\ UNCHANGED <<similar_pairs, pair_merge_cache, should_merge_calls>>
    /\ UNCHANGED <<treeVars, simpOthers>>

\* lines 799-802: a pass over all pairs merged nothing
EndPass ==
    /\ s_pc = "loop"
    /\ s_idx > Len(similar_pairs)
    /\ s_pc' = "done"
    /\ UNCHANGED <<similar_pairs, pair_merge_cache, s_iter, s_idx,
                   should_merge_calls, last_fold>>
    /\ UNCHANGED <<treeVars, dagVars, simpOthers>>

(* ---------------------- DAG.topological_sort --------------------------- *)
RECURSIVE TopoLoop(_, _, _, _)
\* the while loop of DAG.topological_sort (lines 96-103) on a DAG with the
\* child sets ch
TopoLoop(queue, result, in_degree, ch) ==
    IF queue = <<>> THEN result
    ELSE LET node_id == Head(queue)
             kids == ch[node_id]
             deg2 == [n \in DOMAIN in_degree |->
                        IF n \in kids THEN in_degree[n] - 1 ELSE in_degree[n]]
             freed == SortedSeq({c \in kids : deg2[c] = 0})
         IN TopoLoop(Tail(queue) \o freed, Append(result, node_id), deg2, ch)

Reverse(s) == [i \in 1..Len(s) |-> s[Len(s) + 1 - i]]

\* the list topological_sort builds before its length check, for the DAG with
\* nodes ns, parent sets par and child sets ch
TopoResult(ns, par, ch) ==
    LET in_degree == [n \in ns |-> Cardinality(par[n])]
        queue == SortedSeq({n \in ns : in_degree[n] = 0})
    IN TopoLoop(queue, <<>>, in_degree, ch)

\* topological_sort raises ValueError when the result misses a node
TopoRaises(ns, par, ch) == Len(TopoResult(ns, par, ch)) # Cardinality(ns)

topological_sort(ns, par, ch, reverse) ==
    IF reverse THEN Reverse(TopoResult(ns, par, ch)) ELSE TopoResult(ns, par, ch)

(* -------------------- PlanExecutorInterpreter -------------------------- *)
NoResult == [none |-> TRUE]
NoSummary == [none |-> TRUE]

PENDING == "pending"
RUNNING == "running"
COMPLETED == "completed"
FAILED == "failed"
SKIPPED == "skipped"

done_statuses == {COMPLETED, FAILED, SKIPPED}

\* status texts found in the repository
DbStatusValues == {"pending", "running", "completed", "failed", "Skipped"}

\* str.lower() on the status texts of the model
Lower(str) == IF str = "Skipped" THEN "skipped" ELSE str

\* a mapping that treats a persisted failure as work still to do
_map_db_status_failed_as_pending(db_text) ==
    LET status_lower == Lower(db_text)
    IN IF status_lower \in {"running", "failed"} THEN PENDING
       ELSE IF status_lower \in {"pending", "completed", "skipped"}
            THEN status_lower
            ELSE PENDING

_map_db_status_to_execution_status(db_text) ==
    LET status_lower == Lower(db_text)
    IN IF status_lower = "running" THEN PENDING
       ELSE IF status_lower \in {"pending", "completed", "failed", "skipped"}
            THEN status_lower
            ELSE PENDING

\* a loader that never finds a persisted result
_load_node_record_from_db_finds_nothing(n) == NoResult

\* _load_node_record_from_db: None without a persisted result, else the record
\* with the status mapped from the node's status text
_load_node_record_from_db(n) ==
    IF db_result[n] = NoResult THEN NoResult
    ELSE [node_id |-> n,
          status |-> _map_db_status_to_execution_status(db_status[n]),
          generated_files |-> db_result[n].generated_files]

\* lines 170-173: one edge per listed dependency
HasDepEdges == \E n \in Nodes : tree_deps[n] # {}

RECURSIVE DepOrderLoop(_, _, _)
\* the while loop of lines 187-193; adj[current] lists the dependants of
\* current that are nodes of the tree
DepOrderLoop(queue, order, indeg) ==
    IF queue = <<>> THEN order
    ELSE LET current == Head(queue)
             adj == {n \in Nodes : current \in tree_deps[n]}
             deg2 == [n \in Nodes |-> IF n \in adj THEN indeg[n] - 1 ELSE indeg[n]]
             freed == SortedSeq({n \in adj : deg2[n] = 0})
         IN DepOrderLoop(Tail(queue) \o freed, Append(order, current), deg2)

\* lines 177-186: Kahn's algorithm over the dependency edges only
DepOrder ==
    LET indeg == [n \in Nodes |-> Cardinality(tree_deps[n] \cap Nodes)]
        queue == SortedSeq({n \in Nodes : indeg[n] = 0})
    IN DepOrderLoop(queue, <<>>, indeg)

\* lines 168-206: the order computed by __init__ from the tree and the DAG
\* that tree_to_dag built from it
ComputeTopoOrder ==
    LET par == [n \in Nodes |-> TreeToDagParents(n)]
        ch == [n \in Nodes |-> TreeToDagChildren(n)]
    IN IF HasDepEdges
       THEN IF Len(DepOrder) = NumNodes
            THEN DepOrder
            ELSE SortedSeq(Nodes)
       ELSE IF TopoRaises(Nodes, par, ch)
            THEN SortedSeq(Nodes)
            ELSE topological_sort(Nodes, par, ch, TRUE)

\* an executability test that also waits for every dependency to be Completed
_can_execute_node_deps_completed(node_id) ==
    /\ node_status[node_id] = PENDING
    /\ \A child_id \in child_ids[node_id] : node_status[child_id] \in done_statuses
    /\ \A dep_id \in tree_deps[node_id] : node_status[dep_id] = COMPLETED

_can_execute_node(node_id) ==
    /\ node_id \in DOMAIN node_status
    /\ node_status[node_id] = PENDING
    /\ node_id \in dag_nodes
    /\ \A child_id \in child_ids[node_id] :
          child_id \in DOMAIN node_status /\ node_status[child_id] \in done_statuses

\* record and record.status == COMPLETED, lines 556-557 and 565-566
HasCompletedRecord(id) ==
    id \in DOMAIN node_records /\ node_records[id].status = COMPLETED

\* a context that does not remember which nodes it already holds
_collect_dependency_context_without_collected_ids(node_id) ==
    IF node_id \notin Nodes \/ node_id \notin dag_nodes THEN <<>>
    ELSE SelectSeq(SortedSeq(tree_deps[node_id]), HasCompletedRecord)
            \o SelectSeq(SortedSeq(child_ids[node_id]), HasCompletedRecord)

\* _collect_dependency_context (lines 510-571): one excerpt, named here by the
\* node it is about, for each listed dependency with a Completed record, then
\* one for each child with a Completed record that is not already collected
_collect_dependency_context(node_id) ==
    IF node_id \notin Nodes \/ node_id \notin dag_nodes THEN <<>>
    ELSE LET dep_parts == SelectSeq(SortedSeq(tree_deps[node_id]), HasCompletedRecord)
             collected_ids == SeqToSet(dep_parts)
             NewChild(child_id) ==
                 child_id \notin collected_ids /\ HasCompletedRecord(child_id)
         IN dep_parts \o SelectSeq(SortedSeq(child_ids[node_id]), NewChild)

simpIdle ==
    /\ s_pc = "off"
    /\ similar_pairs = <<>>
    /\ pair_merge_cache = <<>>
    /\ s_iter = 0
    /\ s_idx = 1
    /\ should_merge_calls = <<>>
    /\ last_fold = <<>>

retryIdle ==
    /\ r_pc = "off"
    /\ r_task = "none"
    /\ max_fix_attempts = 0
    /\ attempt = 0
    /\ total_attempts = 0
    /\ sandbox_calls = 0
    /\ error_history = <<>>
    /\ requests = <<>>
    /\ exec_result = "none"
    /\ current_code = 0
    /\ r_result = NoResult

boxIdle ==
    /\ b_pc = "off"
    /\ b_backend = "none"
    /\ b_timeout = 0
    /\ b_runtime = 0
    /\ b_exit_code = 0
    /\ b_clock = 0
    /\ client = FALSE
    /\ daemon_up = FALSE
    /\ container = "none"
    /\ launched = FALSE
    /\ temp_file = FALSE
    /\ b_status = "none"

obsIdle ==
    /\ update_log = <<>>
    /\ node_calls = <<>>

execIdle ==
    /\ obsIdle
    /\ db_status = <<>>
    /\ db_result = <<>>
    /\ disk_files = {}
    /\ e_pc = "off"
    /\ topo_order = <<>>
    /\ node_status = <<>>
    /\ node_records = <<>>
    /\ all_generated_files = <<>>
    /\ e_idx = 1
    /\ invoked = <<>>
    /\ start_status = <<>>
    /\ summary = NoSummary
    /\ prev_summary = NoSummary
    /\ run = 0

Count(status) == Cardinality({n \in DOMAIN node_status : node_status[n] = status})

\* PlanExecutorInterpreter.__init__ (lines 160-230): load the tree, build the
\* DAG, compute the order, start with empty tracking maps
Construct ==
    /\ e_pc = "new"
    /\ UNCHANGED treeVars
    /\ tree_to_dag
    /\ topo_order' = ComputeTopoOrder
    /\ node_status' = <<>>
    /\ node_records' = <<>>
    /\ all_generated_files' = <<>>
    /\ e_pc' = "ready"
    /\ update_log' = <<>>
    /\ node_calls' = <<>>
    /\ UNCHANGED <<e_idx, invoked, start_status, summary, prev_summary, run>>
    /\ UNCHANGED <<repoVars, simpVars, retryVars, boxVars, asyncVars, simVars>>

\* execute(), line 909: _initialize_node_states (lines 853-883)
ExecuteBegin ==
    /\ e_pc = "ready"
    /\ node_status' = [n \in Nodes |-> _map_db_status_to_execution_status(db_status[n])]
    /\ node_records' =
          LET loaded == {n \in Nodes :
                           /\ _map_db_status_to_execution_status(db_status[n]) = COMPLETED
                           /\ _load_node_record_from_db(n) # NoResult}
          IN [n \in loaded |-> _load_node_record_from_db(n)]
    /\ start_status' = db_status
    /\ e_idx' = 1
    /\ e_pc' = "loop"
    /\ UNCHANGED <<topo_order, all_generated_files, invoked, summary, prev_summary, run>>
    /\ UNCHANGED <<treeVars, dagVars, repoVars, execOthers>>

InLoop == e_pc = "loop" /\ e_idx <= Len(topo_order)

\* lines 913-916: a node that is not Pending is passed over
LoopNotPending ==
    /\ InLoop
    /\ node_status[topo_order[e_idx]] # PENDING
    /\ e_idx' = e_idx + 1
    /\ UNCHANGED <<e_pc, topo_order, node_status, node_records, all_generated_files,
                   invoked, start_status, summary, prev_summary, run>>
    /\ UNCHANGED <<treeVars, dagVars, repoVars, execOthers>>

\* a loop that also persists the SKIPPED status it sets
LoopSkip_persisted ==
    /\ InLoop
    /\ node_status[topo_order[e_idx]] = PENDING
    /\ ~ _can_execute_node(topo_order[e_idx])
    /\ node_status' = [node_status EXCEPT ![topo_order[e_idx]] = SKIPPED]
    /\ e_idx' = e_idx + 1
    /\ db_status' = [db_status EXCEPT ![topo_order[e_idx]] = SKIPPED]
    /\ update_log' = Append(update_log, <<topo_order[e_idx], SKIPPED>>)
    /\ UNCHANGED <<e_pc, topo_order, node_records, all_generated_files,
                   invoked, start_status, summary, prev_summary, run>>
    /\ UNCHANGED <<db_result, disk_files>>
    /\ UNCHANGED <<treeVars, dagVars, simpVars, retryVars, node_calls, boxVars,
                   asyncVars, simVars>>

\* a loop that passes over a Pending node that cannot execute and leaves it Pending
LoopSkip_leaves_pending ==
    /\ InLoop
    /\ node_status[topo_order[e_idx]] = PENDING
    /\ ~ _can_execute_node(topo_order[e_idx])
    /\ e_idx' = e_idx + 1
    /\ UNCHANGED <<e_pc, topo_order, node_status, node_records, all_generated_files,
                   invoked, start_status, summary, prev_summary, run>>
    /\ UNCHANGED <<treeVars, dagVars, repoVars, execOthers>>

\* a loop that marks every node that cannot execute, whatever its status
LoopSkip_without_pending_test ==
    /\ InLoop
    /\ ~ _can_execute_node(topo_order[e_idx])
    /\ node_status' = [node_status EXCEPT ![topo_order[e_idx]] = SKIPPED]
    /\ e_idx' = e_idx + 1
    /\ UNCHANGED <<e_pc, topo_order, node_records, all_generated_files,
                   invoked, start_status, summary, prev_summary, run>>
    /\ UNCHANGED <<treeVars, dagVars, repoVars, execOthers>>

\* lines 919-922: a Pending node that cannot execute is marked SKIPPED
LoopSkip ==
    /\ InLoop
    /\ node_status[topo_order[e_idx]] = PENDING
    /\ ~ _can_execute_node(topo_order[e_idx])
    /\ node_status' = [node_status EXCEPT ![topo_order[e_idx]] = SKIPPED]
    /\ e_idx' = e_idx + 1
    /\ UNCHANGED <<e_pc, topo_order, node_records, all_generated_files,
                   invoked, start_status, summary, prev_summary, run>>
    /\ UNCHANGED <<treeVars, dagVars, repoVars, execOthers>>

\* line 925 and _execute_single_node up to the call of task_executor.execute
\* (lines 602-656): the node is RUNNING and handed to the Task Executor
StartNode ==
    /\ InLoop
    /\ node_status[topo_order[e_idx]] = PENDING
    /\ _can_execute_node(topo_order[e_idx])
    /\ node_status' = [node_status EXCEPT ![topo_order[e_idx]] = RUNNING]
    /\ invoked' = Append(invoked, topo_order[e_idx])
    /\ e_pc' = "running"
    /\ UNCHANGED <<topo_order, node_records, all_generated_files, e_idx,
                   start_status, summary, prev_summary, run>>
    /\ UNCHANGED <<treeVars, dagVars, repoVars, execOthers>>

\* a repository call that persists a completed node only
update_task_completed_only(task_id, status, execution_result) ==
    IF status = COMPLETED
      THEN /\ db_status' = [db_status EXCEPT ![task_id] = status]
           /\ db_result' = [db_result EXCEPT ![task_id] = execution_result]
           /\ update_log' = Append(update_log, <<task_id, status>>)
      ELSE UNCHANGED <<db_status, db_result, update_log>>

\* repo.update_task(plan_id, task_id, status, execution_result), lines 759-776
update_task(task_id, status, execution_result) ==
    /\ db_status' = [db_status EXCEPT ![task_id] = status]
    /\ db_result' = [db_result EXCEPT ![task_id] = execution_result]
    /\ update_log' = Append(update_log, <<task_id, status>>)

\* an end of node that puts a failed node back to Pending and stays on it
FinishNodeWith_retries_failed(success, written) ==
    LET node_id == topo_order[e_idx]
        new_files == written \ disk_files
        status == IF success THEN COMPLETED ELSE PENDING
        record == [node_id |-> node_id, status |-> status,
                   generated_files |-> new_files]
    IN /\ disk_files' = disk_files \cup written
       /\ all_generated_files' = all_generated_files \o SortedSeq(new_files)
       /\ node_status' = [node_status EXCEPT ![node_id] = status]
       /\ node_records' = [n \in DOMAIN node_records \cup {node_id} |->
                             IF n = node_id THEN record ELSE node_records[n]]
       /\ update_task(node_id, status, [generated_files |-> new_files])
       /\ e_idx' = IF success THEN e_idx + 1 ELSE e_idx
       /\ e_pc' = "loop"
       /\ UNCHANGED <<topo_order, invoked, start_status, summary, prev_summary, run>>

\* _execute_single_node after task_executor.execute returned a result with
\* this success flag, the sandbox having written these files (lines 658-778):
\* the new files are those the directory scan did not show before, the record
\* takes the terminal status, update_task persists it
FinishNodeWith(success, written) ==
    LET node_id == topo_order[e_idx]
        new_files == written \ disk_files
        status == IF success THEN COMPLETED ELSE FAILED
        record == [node_id |-> node_id, status |-> status,
                   generated_files |-> new_files]
    IN /\ disk_files' = disk_files \cup written
       /\ all_generated_files' = all_generated_files \o SortedSeq(new_files)
       /\ node_status' = [node_status EXCEPT ![node_id] = status]
       /\ node_records' = [n \in DOMAIN node_records \cup {node_id} |->
                             IF n = node_id THEN record ELSE node_records[n]]
       /\ update_task(node_id, status, [generated_files |-> new_files])
       /\ e_idx' = e_idx + 1
       /\ e_pc' = "loop"
       /\ UNCHANGED <<topo_order, invoked, start_status, summary, prev_summary, run>>

\* _execute_single_node after task_executor.execute returned, whatever the
\* Task Executor answered
FinishNode ==
    /\ e_pc = "running"
    /\ \E success \in BOOLEAN, written \in SUBSET {topo_order[e_idx]} :
          FinishNodeWith(success, written)
    /\ UNCHANGED <<treeVars, dagVars, simpVars, retryVars, node_calls, boxVars, asyncVars, simVars>>

\* task_executor.execute raises (it is called outside any try block, line 649):
\* the exception leaves execute(), the node stays RUNNING in memory and
\* nothing is persisted
TaskRaises ==
    /\ e_pc = "running"
    /\ e_pc' = "aborted"
    /\ UNCHANGED <<topo_order, node_status, node_records, all_generated_files, e_idx,
                   invoked, start_status, summary, prev_summary, run>>
    /\ UNCHANGED <<treeVars, dagVars, repoVars, execOthers>>

\* lines 927-956: the counts and the PlanExecutionResult
ExecuteEnd ==
    /\ e_pc = "loop"
    /\ e_idx > Len(topo_order)
    /\ summary' = [success |-> Count(FAILED) = 0,
                   total_nodes |-> NumNodes,
                   completed_nodes |-> Count(COMPLETED),
                   failed_nodes |-> Count(FAILED),
                   skipped_nodes |-> Count(SKIPPED),
                   all_generated_files |-> all_generated_files]
    /\ e_pc' = "done"
    /\ UNCHANGED <<topo_order, node_status, node_records, all_generated_files, e_idx,
                   invoked, start_status, prev_summary, run>>
    /\ UNCHANGED <<treeVars, dagVars, repoVars, execOthers>>

\* execute_plan (lines 980-998) called again on the same plan: a new executor
NewRun ==
    /\ e_pc \in {"done", "aborted"}
    /\ run < MaxRuns
    /\ run' = run + 1
    /\ prev_summary' = summary
    /\ summary' = NoSummary
    /\ invoked' = <<>>
    /\ e_idx' = 1
    /\ e_pc' = "new"
    /\ topo_order' = <<>>
    /\ node_status' = <<>>
    /\ node_records' = <<>>
    /\ all_generated_files' = <<>>
    /\ start_status' = <<>>
    /\ UNCHANGED <<treeVars, dagVars, repoVars, execOthers>>

\* a plan in the repository: any dependency lists, any persisted statuses; a
\* node persisted as completed or failed carries a persisted result
InitExec ==
    /\ \E p \in ParentFns : tree_adjacency = AdjacencyOf(p)
    /\ tree_deps \in DepFns
    /\ dag_nodes = {}
    /\ parent_ids = <<>>
    /\ child_ids = <<>>
    /\ dependencies = <<>>
    /\ merge_map = <<>>
    /\ simpIdle
    /\ db_status \in [Nodes -> DbStatusValues]
    /\ db_result = [n \in Nodes |->
                      IF Lower(db_status[n]) \in {"completed", "failed"}
                      THEN [generated_files |-> {}]
                      ELSE NoResult]
    /\ disk_files = {}
    /\ e_pc = "new"
    /\ topo_order = <<>>
    /\ node_status = <<>>
    /\ node_records = <<>>
    /\ all_generated_files = <<>>
    /\ e_idx = 1
    /\ invoked = <<>>
    /\ start_status = <<>>
    /\ summary = NoSummary
    /\ prev_summary = NoSummary
    /\ run = 1
    /\ retryIdle
    /\ obsIdle
    /\ boxIdle
    /\ asyncIdle
    /\ simIdle

NextExec ==
    \/ Construct
    \/ ExecuteBegin
    \/ LoopNotPending
    \/ LoopSkip
    \/ StartNode
    \/ FinishNode
    \/ TaskRaises
    \/ ExecuteEnd
    \/ NewRun

vars == <<treeVars, dagVars, simpVars, repoVars, execVars, retryVars, obsVars, boxVars,
          asyncVars, simVars>>

\* input of simplify: a plan tree whose child and dependency edges are acyclic
InitSimplify ==
    /\ \E p \in ParentFns : tree_adjacency = AdjacencyOf(p)
    /\ tree_deps \in DepFns
    /\ ~ HasCycle(TreeCombined, Nodes)
    /\ dag_nodes = {}
    /\ parent_ids = <<>>
    /\ child_ids = <<>>
    /\ dependencies = <<>>
    /\ merge_map = <<>>
    /\ s_pc = "start"
    /\ similar_pairs = <<>>
    /\ pair_merge_cache = <<>>
    /\ s_iter = 0
    /\ s_idx = 1
    /\ should_merge_calls = <<>>
    /\ last_fold = <<>>
    /\ execIdle
    /\ retryIdle
    /\ boxIdle
    /\ asyncIdle
    /\ simIdle

NextSimplify ==
    \/ SimplifyBuild
    \/ FindSimilarPairs
    \/ SkipPair
    \/ AskShouldMerge
    \/ MergeCached
    \/ EndPass

SpecSimplify == InitSimplify /\ [][NextSimplify]_vars

\* simplify is one synchronous call: once called it keeps taking its steps
SpecSimplifyFair == SpecSimplify /\ WF_vars(NextSimplify)

SpecExec == InitExec /\ [][NextExec]_vars

(* ---------------- TaskExecutor: the code-fix retry loops ---------------- *)
\* default of max_fix_attempts in _execute_code_task and _execute_data_summary_task
MaxFixAttemptsDefault == 5

\* max_retries that _execute_code_task passes to fix_code
FixMaxRetries == 3

\* what one call of the language model can give: usable non-empty code, a
\* response without usable code, or an exception
LLMAnswers == {"code", "empty", "raise"}

\* run_python_code results: CodeExecutionResult.status
SandboxStatuses == {"success", "failed", "timeout", "error"}

\* a snippet that differs from every snippet of the earlier attempts
NewCode == attempt + 1

\* a fix_code that hands back empty code when no answer has usable code
fix_code_empty_on_failure(code, answers) ==
    IF \E i \in 1..FixMaxRetries : answers[i] = "code" THEN NewCode ELSE 0

\* CodeGenerator.fix_code: the first answer with non-empty code wins; when no
\* answer has one, the response carries the code that was passed in
fix_code(code, answers) ==
    IF \E i \in 1..FixMaxRetries : answers[i] = "code" THEN NewCode ELSE code

\* a loop that runs one iteration too many
InRange_one_more(a) == a <= max_fix_attempts + 1

\* for attempt in range(1, max_fix_attempts + 1)
InRange(a) == a <= max_fix_attempts

\* TaskExecutionResult built by the failure return after the loop
FailureResult(code) ==
    [success |-> FALSE, total_attempts |-> total_attempts', final_code |-> code]

\* the loop header: the next iteration, or the failure return after the loop
NextIteration(code) ==
    IF InRange(attempt + 1)
    THEN /\ attempt' = attempt + 1
         /\ r_pc' = "sandbox"
         /\ r_result' = r_result
    ELSE /\ attempt' = attempt
         /\ r_pc' = "returned"
         /\ r_result' = FailureResult(code)

\* break: leave the loop for the failure return
BreakLoop(code) ==
    /\ attempt' = attempt
    /\ r_pc' = "returned"
    /\ r_result' = FailureResult(code)

\* the request for a targeted patch of current_code with the latest error
PatchRequest == [kind |-> "fix", attempt |-> attempt, errors |-> 1]

\* the request for a new approach, with the whole error_history
RethinkRequest(history) == [kind |-> "rethink", attempt |-> attempt, errors |-> Len(history)]

\* initial code generation: generate() for a code task, the planning and code
\* generation phases for a data summary task
GenerateResponds ==
    /\ r_pc = "generate"
    /\ UNCHANGED <<r_task, max_fix_attempts, total_attempts, sandbox_calls, error_history,
                   requests, exec_result>>
    /\ UNCHANGED retryOthers
    /\ \E resp \in LLMAnswers :
         IF resp = "code"
         THEN /\ current_code' = 1
              /\ NextIteration(1)
         ELSE /\ current_code' = current_code
              /\ attempt' = attempt
              /\ IF resp = "raise" /\ r_task = "code"
                 THEN r_pc' = "raised" /\ r_result' = r_result
                 ELSE r_pc' = "returned" /\ r_result' = FailureResult(0)

\* one iteration up to its next blocking call: run_python_code, the success
\* return, the error_history entry and the request that follows a failure
RunSandbox ==
    /\ r_pc = "sandbox"
    /\ UNCHANGED <<r_task, max_fix_attempts, current_code>>
    /\ UNCHANGED retryOthers
    /\ total_attempts' = attempt
    /\ sandbox_calls' = sandbox_calls + 1
    /\ \E status \in SandboxStatuses :
         /\ exec_result' = status
         /\ IF status = "success"
            THEN /\ r_pc' = "returned"
                 /\ r_result' = [success |-> TRUE, total_attempts |-> total_attempts',
                                 final_code |-> current_code]
                 /\ UNCHANGED <<attempt, error_history, requests>>
            ELSE /\ error_history' = Append(error_history, [attempt |-> attempt])
                 /\ IF attempt < max_fix_attempts
                    THEN /\ IF r_task = "code" \/ attempt <= 2
                            THEN /\ requests' = Append(requests, PatchRequest)
                                 /\ r_pc' = "fix"
                            ELSE /\ requests' = Append(requests, RethinkRequest(error_history'))
                                 /\ r_pc' = "rethink"
                         /\ UNCHANGED <<attempt, r_result>>
                    ELSE /\ requests' = requests
                         /\ NextIteration(current_code)

\* the answer to a patch request: fix_code (a code task) or llm_service.chat
\* (a data summary task)
FixResponds ==
    /\ r_pc = "fix"
    /\ UNCHANGED <<r_task, max_fix_attempts, total_attempts, sandbox_calls, error_history,
                   exec_result>>
    /\ UNCHANGED retryOthers
    /\ IF r_task = "code"
       THEN \E fix_response \in {fix_code(current_code, answers) :
                                   answers \in [1..FixMaxRetries -> LLMAnswers]} :
                IF fix_response # 0
                THEN /\ current_code' = fix_response
                     /\ requests' = requests
                     /\ NextIteration(fix_response)
                ELSE /\ current_code' = current_code
                     /\ requests' = Append(requests, RethinkRequest(error_history))
                     /\ r_pc' = "rethink"
                     /\ UNCHANGED <<attempt, r_result>>
       ELSE \E resp \in LLMAnswers :
              /\ requests' = requests
              /\ IF resp = "code"
                 THEN current_code' = NewCode /\ NextIteration(NewCode)
                 ELSE current_code' = current_code /\ BreakLoop(current_code)

\* the answer to a rethink request: generate() (a code task) or
\* llm_service.chat (a data summary task)
RethinkResponds ==
    /\ r_pc = "rethink"
    /\ UNCHANGED <<r_task, max_fix_attempts, total_attempts, sandbox_calls, error_history,
                   requests, exec_result>>
    /\ UNCHANGED retryOthers
    /\ \E resp \in LLMAnswers :
         IF resp = "code"
         THEN current_code' = NewCode /\ NextIteration(NewCode)
         ELSE /\ current_code' = current_code
              /\ IF r_task = "code"
                 THEN IF resp = "raise"
                      THEN r_pc' = "raised" /\ UNCHANGED <<attempt, r_result>>
                      ELSE NextIteration(current_code)
                 ELSE BreakLoop(current_code)

InitRetry ==
    /\ tree_adjacency = {}
    /\ tree_deps = <<>>
    /\ dag_nodes = {}
    /\ parent_ids = <<>>
    /\ child_ids = <<>>
    /\ dependencies = <<>>
    /\ merge_map = <<>>
    /\ simpIdle
    /\ execIdle
    /\ r_pc = "generate"
    /\ r_task \in {"code", "data_summary"}
    /\ max_fix_attempts \in 1..MaxFixAttemptsDefault
    /\ attempt = 0
    /\ total_attempts = 0
    /\ sandbox_calls = 0
    /\ error_history = <<>>
    /\ requests = <<>>
    /\ exec_result = "none"
    /\ current_code = 0
    /\ r_result = NoResult
    /\ boxIdle
    /\ asyncIdle
    /\ simIdle

NextRetry ==
    \/ GenerateResponds
    \/ RunSandbox
    \/ FixResponds
    \/ RethinkResponds

SpecRetry == InitRetry /\ [][NextRetry]_vars

(* ------------- simplify on a tree that may be malformed ----------------- *)
\* an id that is no node of the tree
GhostParent == NumNodes + 1

\* parent assignments in which a node may also hang under the id of no node
AnyParentFns ==
    {p \in [Nodes -> Nodes \cup {NoParent, GhostParent}] :
        \A n \in Nodes : p[n] < n \/ p[n] = GhostParent}

\* the adjacency has an entry whose parent id is not a node of the tree
HasDanglingParent == \E e \in tree_adjacency : e[1] # NoParent /\ e[1] \notin Nodes

\* input of tree_to_dag: any tree, with or without dangling parent entries
InitAnyTree ==
    /\ \E p \in AnyParentFns : tree_adjacency = AdjacencyOf(p)
    /\ tree_deps \in DepFns
    /\ ~ HasCycle(TreeCombined, Nodes)
    /\ dag_nodes = {}
    /\ parent_ids = <<>>
    /\ child_ids = <<>>
    /\ dependencies = <<>>
    /\ merge_map = <<>>
    /\ s_pc = "start"
    /\ similar_pairs = <<>>
    /\ pair_merge_cache = <<>>
    /\ s_iter = 0
    /\ s_idx = 1
    /\ should_merge_calls = <<>>
    /\ last_fold = <<>>
    /\ execIdle
    /\ retryIdle
    /\ boxIdle
    /\ asyncIdle
    /\ simIdle

SpecAnyTree == InitAnyTree /\ [][NextSimplify]_vars

(* ------------- merge_nodes called directly on a built DAG --------------- *)
\* merge_nodes returns True (lines 642-650): both nodes are in the DAG and,
\* unless force is set, can_merge allows the pair
merge_nodes_succeeds(keep_id, remove_id, force) ==
    /\ keep_id \in dag_nodes
    /\ remove_id \in dag_nodes
    /\ force \/ can_merge(keep_id, remove_id)

\* dag = tree_to_dag(tree)
BuildDag ==
    /\ s_pc = "tree"
    /\ tree_to_dag
    /\ s_pc' = "calls"
    /\ UNCHANGED <<similar_pairs, pair_merge_cache, s_iter, s_idx,
                   should_merge_calls, last_fold>>
    /\ UNCHANGED <<treeVars, simpOthers>>

\* one successful call merge_nodes(dag, keep_id, remove_id, force); s_pc turns
\* to "forced" once a call has succeeded that can_merge would have refused
MergeCall ==
    /\ s_pc \in {"calls", "forced"}
    /\ \E keep_id \in Nodes, remove_id \in Nodes, force \in BOOLEAN :
          /\ merge_nodes_succeeds(keep_id, remove_id, force)
          /\ s_pc' = IF can_merge(keep_id, remove_id) THEN s_pc ELSE "forced"
          /\ merge_nodes(keep_id, remove_id)
          /\ last_fold' = <<keep_id, remove_id>>
    /\ UNCHANGED <<similar_pairs, pair_merge_cache, s_iter, s_idx, should_merge_calls>>
    /\ UNCHANGED <<treeVars, simpOthers>>

\* any tree, with or without dangling parent entries and dependency cycles
InitMerge ==
    /\ \E p \in AnyParentFns : tree_adjacency = AdjacencyOf(p)
    /\ tree_deps \in DepFns
    /\ dag_nodes = {}
    /\ parent_ids = <<>>
    /\ child_ids = <<>>
    /\ dependencies = <<>>
    /\ merge_map = <<>>
    /\ s_pc = "tree"
    /\ similar_pairs = <<>>
    /\ pair_merge_cache = <<>>
    /\ s_iter = 0
    /\ s_idx = 1
    /\ should_merge_calls = <<>>
    /\ last_fold = <<>>
    /\ execIdle
    /\ retryIdle
    /\ boxIdle
    /\ asyncIdle
    /\ simIdle

NextMerge ==
    \/ BuildDag
    \/ MergeCall

SpecMerge == InitMerge /\ [][NextMerge]_vars

(* -------- a run of the plan with the Task Executor called inside -------- *)
\* node.metadata.get("task_type"), "none" when the metadata has no such key
ForceTaskTypes == {"none", "code_required", "text_only", "data_summary"}

\* the locals of a call of TaskExecutor.execute that begins at this position
\* for this task type
TaskCallBegins(pc, task) ==
    /\ r_pc' = pc
    /\ r_task' = task
    /\ max_fix_attempts' = MaxFixAttemptsDefault
    /\ attempt' = 0
    /\ total_attempts' = 0
    /\ sandbox_calls' = 0
    /\ error_history' = <<>>
    /\ requests' = <<>>
    /\ exec_result' = "none"
    /\ current_code' = 0
    /\ r_result' = NoResult

\* no call of the Task Executor is in progress any more
TaskCallEnds ==
    /\ r_pc' = "off"
    /\ r_task' = "none"
    /\ max_fix_attempts' = 0
    /\ attempt' = 0
    /\ total_attempts' = 0
    /\ sandbox_calls' = 0
    /\ error_history' = <<>>
    /\ requests' = <<>>
    /\ exec_result' = "none"
    /\ current_code' = 0
    /\ r_result' = NoResult

\* _execute_single_node up to its first blocking call inside
\* task_executor.execute (information gathering is skipped): a forced
\* data_summary type ends in the call of _execute_data_summary_task with the
\* keyword is_visualization, which that method does not take (TypeError)
RunStartNode ==
    /\ InLoop
    /\ node_status[topo_order[e_idx]] = PENDING
    /\ _can_execute_node(topo_order[e_idx])
    /\ node_status' = [node_status EXCEPT ![topo_order[e_idx]] = RUNNING]
    /\ invoked' = Append(invoked, topo_order[e_idx])
    /\ e_pc' = "running"
    /\ \E force_task_type \in ForceTaskTypes :
          CASE force_task_type = "none" -> TaskCallBegins("classify", "none")
            [] force_task_type = "code_required" -> TaskCallBegins("generate", "code")
            [] force_task_type = "text_only" -> TaskCallBegins("text", "text_only")
            [] force_task_type = "data_summary" -> TaskCallBegins("raised", "data_summary")
    /\ UNCHANGED <<topo_order, node_records, all_generated_files, e_idx,
                   start_status, summary, prev_summary, run>>
    /\ UNCHANGED <<treeVars, dagVars, repoVars, simpVars, obsVars, boxVars, asyncVars, simVars>>

\* _analyze_task_type: text_only when the language model says so, else (any
\* other answer, no answer that parses, an exception) code_required
AnalyzeTaskType ==
    /\ r_pc = "classify"
    /\ \E answer \in {"text_only", "code_required", "unusable", "raise"} :
          IF answer = "text_only"
          THEN r_pc' = "text" /\ r_task' = "text_only"
          ELSE r_pc' = "generate" /\ r_task' = "code"
    /\ UNCHANGED <<max_fix_attempts, attempt, total_attempts, sandbox_calls, error_history,
                   requests, exec_result, current_code, r_result>>
    /\ UNCHANGED retryOthers

\* _execute_text_task: the answer of llm_service.chat is the result; an
\* exception of the call is not caught
TextResponds ==
    /\ r_pc = "text"
    /\ \E resp \in {"text", "raise"} :
          IF resp = "text"
          THEN /\ r_pc' = "returned"
               /\ r_result' = [success |-> TRUE, total_attempts |-> 0, final_code |-> 0]
          ELSE /\ r_pc' = "raised"
               /\ r_result' = r_result
    /\ UNCHANGED <<r_task, max_fix_attempts, attempt, total_attempts, sandbox_calls,
                   error_history, requests, exec_result, current_code>>
    /\ UNCHANGED retryOthers

\* task_executor.execute returned: the rest of _execute_single_node; files
\* are written by code that ran in the sandbox
RunFinishNode ==
    /\ e_pc = "running"
    /\ r_pc = "returned"
    /\ \E written \in SUBSET {topo_order[e_idx]} :
          /\ sandbox_calls = 0 => written = {}
          /\ FinishNodeWith(r_result.success, written)
    /\ node_calls' = [n \in DOMAIN node_calls \cup {topo_order[e_idx]} |->
                        IF n = topo_order[e_idx]
                        THEN [calls |-> sandbox_calls, failures |-> Len(error_history),
                              requests |-> Len(requests)]
                        ELSE node_calls[n]]
    /\ TaskCallEnds
    /\ UNCHANGED <<treeVars, dagVars, simpVars, boxVars, asyncVars, simVars>>

\* an exception left task_executor.execute: nothing catches it in
\* _execute_single_node or in execute()
RunTaskRaises ==
    /\ e_pc = "running"
    /\ r_pc = "raised"
    /\ e_pc' = "aborted"
    /\ UNCHANGED <<topo_order, node_status, node_records, all_generated_files, e_idx,
                   invoked, start_status, summary, prev_summary, run>>
    /\ UNCHANGED <<treeVars, dagVars, repoVars, execOthers>>

\* a plan in the repository whose nodes are pending, but for at most one
\* that an earlier run completed
InitRun ==
    /\ \E p \in ParentFns : tree_adjacency = AdjacencyOf(p)
    /\ tree_deps \in DepFns
    /\ dag_nodes = {}
    /\ parent_ids = <<>>
    /\ child_ids = <<>>
    /\ dependencies = <<>>
    /\ merge_map = <<>>
    /\ simpIdle
    /\ \E done \in {S \in SUBSET Nodes : Cardinality(S) <= 1} :
          /\ db_status = [n \in Nodes |-> IF n \in done THEN "completed" ELSE "pending"]
          /\ db_result = [n \in Nodes |-> IF n \in done THEN [generated_files |-> {}]
                                           ELSE NoResult]
    /\ disk_files = {}
    /\ e_pc = "new"
    /\ topo_order = <<>>
    /\ node_status = <<>>
    /\ node_records = <<>>
    /\ all_generated_files = <<>>
    /\ e_idx = 1
    /\ invoked = <<>>
    /\ start_status = <<>>
    /\ summary = NoSummary
    /\ prev_summary = NoSummary
    /\ run = 1
    /\ retryIdle
    /\ obsIdle
    /\ boxIdle
    /\ asyncIdle
    /\ simIdle

\* a code task never reaches the rethink request (fix_code returns code), so
\* no answer to one occurs in a run
NextRun ==
    \/ Construct
    \/ ExecuteBegin
    \/ LoopNotPending
    \/ LoopSkip
    \/ RunStartNode
    \/ AnalyzeTaskType
    \/ TextResponds
    \/ GenerateResponds
    \/ RunSandbox
    \/ FixResponds
    \/ RunFinishNode
    \/ RunTaskRaises
    \/ ExecuteEnd

SpecRun == InitRun /\ [][NextRun]_vars

(* ------------------- one call of a sandbox backend ---------------------- *)
SandboxBackends == {"docker", "venv"}

\* status and position after the try block of the Docker backend was left with
\* the given status: the finally clause is next
DockerLeaveTry(status) ==
    /\ b_status' = status
    /\ b_pc' = "cleanup"

\* DockerCodeInterpreter.run_python_code up to the launch of the container:
\* without a client the call returns 'error' at once; a failing image check or
\* pull, or a failing containers.run, ends the try block with 'error'
DockerStart ==
    /\ b_pc = "start"
    /\ b_backend = "docker"
    /\ IF ~ client
         THEN /\ b_status' = "error"
              /\ b_pc' = "returned"
              /\ UNCHANGED <<container, launched, b_clock>>
         ELSE \E image_ok \in BOOLEAN, run_ok \in BOOLEAN :
                 IF daemon_up /\ image_ok /\ run_ok
                   THEN /\ container' = IF b_runtime = 0 THEN "exited" ELSE "running"
                        /\ launched' = TRUE
                        /\ b_clock' = 0
                        /\ b_pc' = "polling"
                        /\ UNCHANGED b_status
                   ELSE /\ DockerLeaveTry("error")
                        /\ UNCHANGED <<container, launched, b_clock>>
    /\ UNCHANGED <<b_backend, b_timeout, b_runtime, b_exit_code, client, daemon_up, temp_file>>
    /\ UNCHANGED boxOthers

\* one round of the monitoring loop: reload the container, leave the loop when
\* it has exited, kill it and report 'timeout' when the time is exceeded,
\* otherwise sleep one polling interval
DockerPoll ==
    /\ b_pc = "polling"
    /\ IF ~ daemon_up
         THEN /\ DockerLeaveTry("error")
              /\ UNCHANGED <<container, b_clock>>
         ELSE IF container = "exited"
                THEN /\ b_pc' = "collect"
                     /\ UNCHANGED <<container, b_clock, b_status>>
                ELSE IF b_clock > b_timeout
                       THEN /\ container' = "exited"
                            /\ DockerLeaveTry("timeout")
                            /\ UNCHANGED b_clock
                       ELSE /\ b_clock' = b_clock + 1
                            /\ container' = IF b_clock + 1 >= b_runtime THEN "exited"
                                            ELSE container
                            /\ UNCHANGED <<b_pc, b_status>>
    /\ UNCHANGED <<b_backend, b_timeout, b_runtime, b_exit_code, client, daemon_up,
                   launched, temp_file>>
    /\ UNCHANGED boxOthers

\* container.wait() and container.logs(): the status follows the exit code
DockerCollect ==
    /\ b_pc = "collect"
    /\ IF ~ daemon_up
         THEN DockerLeaveTry("error")
         ELSE DockerLeaveTry(IF b_exit_code = 0 THEN "success" ELSE "failed")
    /\ UNCHANGED <<b_backend, b_timeout, b_runtime, b_exit_code, b_clock, client, daemon_up,
                   container, launched, temp_file>>
    /\ UNCHANGED boxOthers

\* the finally clause: container.remove(force=True) when a container was
\* launched, an exception of the removal being swallowed
DockerCleanup ==
    /\ b_pc = "cleanup"
    /\ b_backend = "docker"
    /\ container' = IF container # "none" /\ daemon_up THEN "removed" ELSE container
    /\ b_pc' = "returned"
    /\ UNCHANGED <<b_backend, b_timeout, b_runtime, b_exit_code, b_clock, client, daemon_up,
                   launched, temp_file, b_status>>
    /\ UNCHANGED boxOthers

\* the Docker daemon stops answering while the call is under way
DaemonFails ==
    /\ b_backend = "docker"
    /\ b_pc \in {"polling", "collect", "cleanup"}
    /\ daemon_up
    /\ daemon_up' = FALSE
    /\ UNCHANGED <<b_pc, b_backend, b_timeout, b_runtime, b_exit_code, b_clock, client,
                   container, launched, temp_file, b_status>>
    /\ UNCHANGED boxOthers

\* VenvCodeInterpreter.run_python_code up to the start of the subprocess: the
\* temporary file is written ('error' when that fails) and subprocess.run
\* starts the interpreter ('error' when that fails)
VenvStart ==
    /\ b_pc = "start"
    /\ b_backend = "venv"
    /\ \E file_ok \in BOOLEAN, spawn_ok \in BOOLEAN :
          IF ~ file_ok
            THEN /\ b_status' = "error"
                 /\ b_pc' = "returned"
                 /\ UNCHANGED <<container, launched, temp_file>>
            ELSE IF ~ spawn_ok
                   THEN /\ b_status' = "error"
                        /\ b_pc' = "cleanup"
                        /\ temp_file' = TRUE
                        /\ UNCHANGED <<container, launched>>
                   ELSE /\ container' = "running"
                        /\ launched' = TRUE
                        /\ temp_file' = TRUE
                        /\ b_pc' = "waiting"
                        /\ UNCHANGED b_status
    /\ UNCHANGED <<b_backend, b_timeout, b_runtime, b_exit_code, b_clock, client, daemon_up>>
    /\ UNCHANGED boxOthers

\* subprocess.run(..., timeout=self.timeout) returns when the code ends, or
\* kills the subprocess and raises TimeoutExpired when the timeout expires first
VenvWait ==
    /\ b_pc = "waiting"
    /\ container' = "exited"
    /\ IF b_runtime <= b_timeout
         THEN /\ b_clock' = b_runtime
              /\ b_status' = IF b_exit_code = 0 THEN "success" ELSE "failed"
         ELSE /\ b_clock' = b_timeout
              /\ b_status' = "timeout"
    /\ b_pc' = "cleanup"
    /\ UNCHANGED <<b_backend, b_timeout, b_runtime, b_exit_code, client, daemon_up,
                   launched, temp_file>>
    /\ UNCHANGED boxOthers

\* the finally clause: os.unlink of the temporary file, a failure being logged only
VenvCleanup ==
    /\ b_pc = "cleanup"
    /\ b_backend = "venv"
    /\ \E unlink_ok \in BOOLEAN : temp_file' = (temp_file /\ ~ unlink_ok)
    /\ b_pc' = "returned"
    /\ UNCHANGED <<b_backend, b_timeout, b_runtime, b_exit_code, b_clock, client, daemon_up,
                   container, launched, b_status>>
    /\ UNCHANGED boxOthers

\* a call of run_python_code on either backend, for any timeout, running time
\* and exit code of the code; the Docker backend with or without a client
InitSandbox ==
    /\ tree_adjacency = {}
    /\ tree_deps = <<>>
    /\ dag_nodes = {}
    /\ parent_ids = <<>>
    /\ child_ids = <<>>
    /\ dependencies = <<>>
    /\ merge_map = <<>>
    /\ simpIdle
    /\ execIdle
    /\ retryIdle
    /\ asyncIdle
    /\ simIdle
    /\ b_pc = "start"
    /\ b_backend \in SandboxBackends
    /\ b_timeout \in 1..MaxTimeout
    /\ b_runtime \in 0..MaxRuntime
    /\ b_exit_code \in {0, 1}
    /\ b_clock = 0
    /\ client \in BOOLEAN
    /\ daemon_up \in BOOLEAN
    /\ b_backend = "venv" => ~ client /\ ~ daemon_up
    /\ ~ client => ~ daemon_up
    /\ container = "none"
    /\ launched = FALSE
    /\ temp_file = FALSE
    /\ b_status = "none"

NextSandbox ==
    \/ DockerStart
    \/ DockerPoll
    \/ DockerCollect
    \/ DockerCleanup
    \/ DaemonFails
    \/ VenvStart
    \/ VenvWait
    \/ VenvCleanup

SpecSandbox == InitSandbox /\ [][NextSandbox]_vars

(* ------------------ AsyncTaskExecutor.execute_tasks_batch ---------------- *)
Tasks == DOMAIN task_valid

\* the frame of an action of the batch
asyncOthers == <<treeVars, dagVars, simpVars, repoVars, execVars, retryVars, obsVars,
                 boxVars, simVars>>

\* a semaphore that hands out a permit whatever its value
SemaphoreFree_always == TRUE

\* asyncio.Semaphore: acquire goes through when the value is positive
SemaphoreFree == semaphore > 0

\* the coroutines of the batch that hold a permit
InsideSemaphore == {t \in Tasks : a_pc[t] \in {"inside", "failing"}}

\* the coroutine leaves `async with self.semaphore' with this outcome
LeaveSemaphore(t, outcome) ==
    /\ semaphore' = semaphore + 1
    /\ a_pc' = [a_pc EXCEPT ![t] = "done"]
    /\ a_out' = [a_out EXCEPT ![t] = outcome]

\* execute_task up to its first suspension: the permit is taken and
\* _extract_task_info reads the task; a task of invalid format raises
\* ValueError there, outside the try block, and the permit is given back
EnterTask(t) ==
    /\ batch_pc = "gather"
    /\ a_pc[t] = "created"
    /\ SemaphoreFree
    /\ IF task_valid[t]
         THEN /\ semaphore' = semaphore - 1
              /\ a_pc' = [a_pc EXCEPT ![t] = "inside"]
              /\ UNCHANGED a_out
         ELSE /\ a_pc' = [a_pc EXCEPT ![t] = "done"]
              /\ a_out' = [a_out EXCEPT ![t] = "raised"]
              /\ UNCHANGED semaphore
    /\ UNCHANGED <<max_concurrent, task_valid, batch_pc, processed_results>>
    /\ UNCHANGED asyncOthers

\* the try block: prompt, chat_async and _store_results end well and the
\* result 'done' is returned, or one of them raises and the except clause
\* starts _update_task_status
TaskResponds(t) ==
    /\ a_pc[t] = "inside"
    /\ \E ok \in BOOLEAN :
          IF ok THEN LeaveSemaphore(t, "done")
          ELSE /\ a_pc' = [a_pc EXCEPT ![t] = "failing"]
               /\ UNCHANGED <<semaphore, a_out>>
    /\ UNCHANGED <<max_concurrent, task_valid, batch_pc, processed_results>>
    /\ UNCHANGED asyncOthers

\* the except clause: _update_task_status ends and the result 'failed' is
\* returned, or the repository raises and the exception leaves execute_task
TaskFailureStored(t) ==
    /\ a_pc[t] = "failing"
    /\ \E ok \in BOOLEAN : LeaveSemaphore(t, IF ok THEN "failed" ELSE "raised")
    /\ UNCHANGED <<max_concurrent, task_valid, batch_pc, processed_results>>
    /\ UNCHANGED asyncOthers

\* the results loop of execute_tasks_batch run over the first k answers of
\* gather: an exception is replaced by a 'failed' result whose id comes from
\* _extract_task_info, which raises again for a task of invalid format
RECURSIVE ProcessResults(_)
ProcessResults(k) ==
    IF k = 0 THEN [raised |-> FALSE, results |-> <<>>]
    ELSE LET before == ProcessResults(k - 1)
         IN IF before.raised THEN before
            ELSE IF a_out[k] = "raised"
                   THEN IF task_valid[k]
                          THEN [raised |-> FALSE,
                                results |-> Append(before.results, <<k, "failed">>)]
                          ELSE [raised |-> TRUE, results |-> before.results]
                   ELSE [raised |-> FALSE,
                         results |-> Append(before.results, <<k, a_out[k]>>)]

\* asyncio.gather(..., return_exceptions=True) has every answer: the results
\* loop runs and execute_tasks_batch returns, or raises
GatherReturns ==
    /\ batch_pc = "gather"
    /\ \A t \in Tasks : a_pc[t] = "done"
    /\ LET processed == ProcessResults(Len(task_valid))
       IN /\ batch_pc' = IF processed.raised THEN "raised" ELSE "returned"
          /\ processed_results' = IF processed.raised THEN <<>> ELSE processed.results
    /\ UNCHANGED <<max_concurrent, semaphore, task_valid, a_pc, a_out>>
    /\ UNCHANGED asyncOthers

\* an executor with max_concurrent permits and a batch of tasks, each of a
\* valid or an invalid format
InitAsync ==
    /\ tree_adjacency = {}
    /\ tree_deps = <<>>
    /\ dag_nodes = {}
    /\ parent_ids = <<>>
    /\ child_ids = <<>>
    /\ dependencies = <<>>
    /\ merge_map = <<>>
    /\ simpIdle
    /\ execIdle
    /\ retryIdle
    /\ boxIdle
    /\ simIdle
    /\ max_concurrent \in 1..MaxConcurrent
    /\ semaphore = max_concurrent
    /\ \E n \in 1..MaxTasks : task_valid \in [1..n -> BOOLEAN]
    /\ a_pc = [t \in DOMAIN task_valid |-> "created"]
    /\ a_out = [t \in DOMAIN task_valid |-> "none"]
    /\ batch_pc = "gather"
    /\ processed_results = <<>>

NextAsync ==
    \/ \E t \in Tasks : EnterTask(t)
    \/ \E t \in Tasks : TaskResponds(t)
    \/ \E t \in Tasks : TaskFailureStored(t)
    \/ GatherReturns

SpecAsync == InitAsync /\ [][NextAsync]_vars

(* --------------- SimulationRegistry: the calls on one run ---------------- *)
Calls == DOMAIN c_kind

simOthers == <<treeVars, dagVars, simpVars, repoVars, execVars, retryVars, obsVars,
               boxVars, asyncVars>>

\* the statuses in which advance_run and auto_run do nothing more
TerminalStatuses == {"finished", "cancelled", "error"}

\* SimulationRunState.remaining_turns for a list of turns
remaining_turns(t) == Max(max_turns - Len(t), 0)

\* a last block of advance_run that leaves the status 'running' in place
StatusAfterTurn_keeps_running(status, t) ==
    LET stopped == IF t[Len(t)] = "misaligned" /\ stop_on_misalignment
                     THEN "finished" ELSE status
    IN IF remaining_turns(t) <= 0 THEN "finished" ELSE stopped

\* the last block of advance_run: the status after the turn that made the
\* list of turns t was recorded, the status being `status' until then
StatusAfterTurn(status, t) ==
    LET stopped == IF t[Len(t)] = "misaligned" /\ stop_on_misalignment
                     THEN "finished" ELSE status
    IN IF remaining_turns(t) <= 0 THEN "finished"
       ELSE IF stopped = "running" THEN "idle" ELSE stopped

\* one round of the loop of auto_run up to its next suspension: return on a
\* terminal status, finish and return when no turn remains, otherwise call
\* advance_run, which marks the run running and starts a turn
AutoHead(status, t) ==
    IF status \in TerminalStatuses THEN [pc |-> "returned", status |-> status]
    ELSE IF remaining_turns(t) <= 0 THEN [pc |-> "returned", status |-> "finished"]
    ELSE [pc |-> "turn", status |-> "running"]

\* a caller that waits for each call to end starts none while a turn is under way
CanStart(c) ==
    /\ c_pc[c] = "new"
    /\ sim_serial => \A d \in Calls : c_pc[d] # "turn"

\* advance_run up to orchestrator.run_turn: skipped on a terminal status,
\* otherwise mark_running
StartAdvance(c) ==
    /\ c_kind[c] = "advance"
    /\ CanStart(c)
    /\ IF sim_status \in TerminalStatuses
         THEN /\ c_pc' = [c_pc EXCEPT ![c] = "returned"]
              /\ UNCHANGED sim_status
         ELSE /\ c_pc' = [c_pc EXCEPT ![c] = "turn"]
              /\ sim_status' = "running"
    /\ UNCHANGED <<turns, max_turns, stop_on_misalignment, c_kind, sim_serial>>
    /\ UNCHANGED simOthers

\* auto_run up to its first suspension
StartAuto(c) ==
    /\ c_kind[c] = "auto"
    /\ CanStart(c)
    /\ c_pc' = [c_pc EXCEPT ![c] = AutoHead(sim_status, turns).pc]
    /\ sim_status' = AutoHead(sim_status, turns).status
    /\ UNCHANGED <<turns, max_turns, stop_on_misalignment, c_kind, sim_serial>>
    /\ UNCHANGED simOthers

\* cancel_run
CancelRun(c) ==
    /\ c_kind[c] = "cancel"
    /\ CanStart(c)
    /\ sim_status' = "cancelled"
    /\ c_pc' = [c_pc EXCEPT ![c] = "returned"]
    /\ UNCHANGED <<turns, max_turns, stop_on_misalignment, c_kind, sim_serial>>
    /\ UNCHANGED simOthers

\* orchestrator.run_turn ends: it raises (the run is finished with 'error' and
\* the exception leaves the call), or it has appended the turn with the
\* judge's verdict and the last block of advance_run sets the status; a call
\* of auto_run goes on with the next round of its loop
TurnEnds(c) ==
    /\ c_pc[c] = "turn"
    /\ \E verdict \in {"aligned", "misaligned", "unclear", "raises"} :
          IF verdict = "raises"
            THEN /\ sim_status' = "error"
                 /\ c_pc' = [c_pc EXCEPT ![c] = "raised"]
                 /\ UNCHANGED turns
            ELSE LET t == Append(turns, verdict)
                     after == StatusAfterTurn(sim_status, t)
                 IN /\ turns' = t
                    /\ IF c_kind[c] = "advance"
                         THEN /\ sim_status' = after
                              /\ c_pc' = [c_pc EXCEPT ![c] = "returned"]
                         ELSE /\ sim_status' = AutoHead(after, t).status
                              /\ c_pc' = [c_pc EXCEPT ![c] = AutoHead(after, t).pc]
    /\ UNCHANGED <<max_turns, stop_on_misalignment, c_kind, sim_serial>>
    /\ UNCHANGED simOthers

\* a run just created (status idle, no turn) and the calls that will be made on it
InitSim ==
    /\ tree_adjacency = {}
    /\ tree_deps = <<>>
    /\ dag_nodes = {}
    /\ parent_ids = <<>>
    /\ child_ids = <<>>
    /\ dependencies = <<>>
    /\ merge_map = <<>>
    /\ simpIdle
    /\ execIdle
    /\ retryIdle
    /\ boxIdle
    /\ asyncIdle
    /\ sim_status = "idle"
    /\ turns = <<>>
    /\ max_turns \in 1..MaxTurns
    /\ stop_on_misalignment \in BOOLEAN
    /\ c_kind \in [1..MaxCalls -> {"advance", "auto", "cancel"}]
    /\ c_pc = [c \in 1..MaxCalls |-> "new"]
    /\ sim_serial \in BOOLEAN

NextSim ==
    \/ \E c \in Calls : StartAdvance(c)
    \/ \E c \in Calls : StartAuto(c)
    \/ \E c \in Calls : CancelRun(c)
    \/ \E c \in Calls : TurnEnds(c)

SpecSim == InitSim /\ [][NextSim]_vars

(* ------------------------------ claims --------------------------------- *)
\* the union of child edges and dependency edges of the current DAG
DagCombined == [n \in dag_nodes |-> (child_ids[n] \cup dependencies[n]) \cap dag_nodes]

\* C1: the DAG built by simplify from an acyclic tree stays acyclic over the
\* union of child edges and dependency edges, after tree_to_dag and after
\* every successful merge_nodes.
C1_Acyclic == ~ HasCycle(DagCombined, dag_nodes)

\* mergeable(a, b) as the specification defines it: reachability follows child
\* and dependency edges
Mergeable(a, b) ==
    /\ a # b
    /\ b \notin child_ids[a] /\ a \notin child_ids[b]
    /\ b \notin parent_ids[a] /\ a \notin parent_ids[b]
    /\ b \notin ReachPlus(DagCombined, a)
    /\ a \notin ReachPlus(DagCombined, b)
    /\ b \notin dependencies[a] /\ a \notin dependencies[b]

\* C2: simplify never folds a pair (a, b) for which mergeable(a, b) is false,
\* whatever the oracle answers: every step that removes a node folds a pair
\* that was mergeable in the DAG before the step.
C2_MergeSafety ==
    [][(s_pc = "loop" /\ dag_nodes' # dag_nodes) =>
          Mergeable(last_fold'[1], last_fold'[2])]_vars


\* position of node n in the computed order
Pos(n) == CHOOSE i \in 1..Len(topo_order) : topo_order[i] = n

Constructed == e_pc \in {"ready", "loop", "running", "done", "aborted"}

InvokedSet == SeqToSet(invoked)

\* C3: for every plan whose combined graph is acyclic, every child of a node
\* n and every explicit dependency of n appears strictly before n in
\* _topo_order, whether or not the plan has explicit dependencies.
C3_TopologicalValidity ==
    (Constructed /\ ~ HasCycle(TreeCombined, Nodes)) =>
        \A n \in Nodes : \A d \in TreeChildren(n) \cup tree_deps[n] : Pos(d) < Pos(n)

\* C4: when a node has just changed from Pending to Running, every child of it
\* and every node in its explicit dependency list is Completed, Failed or
\* Skipped.
C4_PrerequisitesTerminal ==
    e_pc = "running" =>
        \A d \in child_ids[topo_order[e_idx]] \cup tree_deps[topo_order[e_idx]] :
            node_status[d] \in done_statuses

\* C5: if the combined graph of dependency edges and parent/child edges has a
\* cycle, the run is aborted and the Task Executor is invoked for no node.
C5_CycleAborts ==
    HasCycle(TreeCombined, Nodes) => (invoked = <<>> /\ e_pc # "done")

\* C6: in a run that ends, every node whose persisted status was 'running'
\* when execute() started has been handed to the Task Executor in that run
\* (stated for plans whose combined graph is acyclic).
C6_InterruptedReexecuted ==
    (e_pc = "done" /\ ~ HasCycle(TreeCombined, Nodes)) =>
        \A n \in Nodes : start_status[n] = "running" => n \in InvokedSet

\* C7: the Task Executor is never invoked for a node whose persisted status at
\* the start of the run is completed or failed; a run that follows a run in
\* which every node ended Completed invokes it for no node.
C7_NoReexecution ==
    /\ \A i \in 1..Len(invoked) :
          Lower(start_status[invoked[i]]) \notin {"completed", "failed"}
    /\ (prev_summary # NoSummary /\ prev_summary.completed_nodes = NumNodes) =>
          invoked = <<>>

\* a second run has ended after a first run that executed nodes, wrote files
\* and ended with every node Completed, and it invoked the Task Executor for
\* no node
C7_Witness ==
    /\ e_pc = "done"
    /\ run = 2
    /\ prev_summary # NoSummary
    /\ prev_summary.completed_nodes = NumNodes
    /\ prev_summary.all_generated_files # <<>>
    /\ \E n \in Nodes : start_status[n] = "completed"
    /\ invoked = <<>>

\* C8: a run on a plan whose previous run ended with every node Completed
\* returns the same total, completed, failed and skipped counts and the same
\* union of produced files as the previous run.
C8_SummaryIdempotent ==
    (e_pc = "done" /\ prev_summary # NoSummary
        /\ prev_summary.completed_nodes = prev_summary.total_nodes) =>
        /\ summary.total_nodes = prev_summary.total_nodes
        /\ summary.completed_nodes = prev_summary.completed_nodes
        /\ summary.failed_nodes = prev_summary.failed_nodes
        /\ summary.skipped_nodes = prev_summary.skipped_nodes
        /\ SeqToSet(summary.all_generated_files) =
              SeqToSet(prev_summary.all_generated_files)

\* C9: one run of the code-fix retry loop, in _execute_code_task and in
\* _execute_data_summary_task, calls the sandbox run_python_code at most
\* max_fix_attempts times, whatever the sandbox and the collaborators answer.
C9_BoundedSandboxCalls == sandbox_calls <= max_fix_attempts

\* a loop with the default max_fix_attempts has returned a failure after
\* exactly max_fix_attempts sandbox calls, each followed by a request
C9_Witness ==
    /\ r_pc = "returned"
    /\ max_fix_attempts = MaxFixAttemptsDefault
    /\ sandbox_calls = max_fix_attempts
    /\ Len(error_history) = max_fix_attempts
    /\ Len(requests) >= max_fix_attempts - 1
    /\ r_result.success = FALSE
    /\ r_result.total_attempts = max_fix_attempts

\* C10: in the retry loop a rethink request (the whole error_history, a new
\* approach asked for) is never issued after failed attempt 1 or 2, whatever
\* the language model answers; after those attempts only a patch of the
\* current code with the latest error is requested.
C10_NoEarlyRethink ==
    \A i \in 1..Len(requests) :
        requests[i].attempt <= 2 => requests[i] = [kind |-> "fix", attempt |-> requests[i].attempt,
                                                   errors |-> 1]

\* a code task whose patch requests after failed attempts 1 and 2 brought no
\* usable code goes on to attempt 3 with the code it started with, having
\* issued patch requests only
C10_Witness ==
    /\ r_task = "code"
    /\ r_pc = "sandbox"
    /\ attempt = 3
    /\ current_code = 1
    /\ Len(error_history) = 2
    /\ requests = <<[kind |-> "fix", attempt |-> 1, errors |-> 1],
                    [kind |-> "fix", attempt |-> 2, errors |-> 1]>>

\* the plan is the chain a -> b -> c of explicit dependencies and nothing else
ChainPlan(a, b, c) ==
    /\ Cardinality({a, b, c}) = 3
    /\ \A n \in Nodes : TreeChildren(n) = {}
    /\ tree_deps[a] = {} /\ tree_deps[b] = {a} /\ tree_deps[c] = {b}
    /\ \A n \in Nodes : start_status[n] = "pending"

\* sandbox calls were made for the node and every one of them failed
AllCallsFailed(n) ==
    /\ n \in DOMAIN node_calls
    /\ node_calls[n].calls >= 1
    /\ node_calls[n].failures = node_calls[n].calls

\* if the node was executed, sandbox calls were made for it and succeeded
CallsSucceeded(n) ==
    n \in DOMAIN node_calls => (node_calls[n].calls >= 1 /\ node_calls[n].failures = 0)

\* C11: on a chain a -> b -> c of explicit dependencies where every sandbox
\* call made for a fails and the calls made for b and c succeed, execute()
\* ends with a Failed after exactly max_fix_attempts sandbox calls, b and c
\* Completed, and a summary with failed = 1 and completed = 2.
C11_FailedPrerequisite ==
    \A a \in Nodes, b \in Nodes, c \in Nodes :
        (e_pc = "done" /\ ChainPlan(a, b, c) /\ AllCallsFailed(a)
            /\ CallsSucceeded(b) /\ CallsSucceeded(c)) =>
            /\ node_status[a] = FAILED
            /\ node_calls[a].calls = MaxFixAttemptsDefault
            /\ node_status[b] = COMPLETED
            /\ node_status[c] = COMPLETED
            /\ summary.failed_nodes = 1
            /\ summary.completed_nodes = 2

\* the run on the chain 1 -> 2 -> 3 has ended: every call for node 1 failed,
\* nodes 2 and 3 ran in the sandbox and succeeded
C11_Witness ==
    /\ e_pc = "done"
    /\ ChainPlan(1, 2, 3)
    /\ AllCallsFailed(1)
    /\ node_calls[1].calls = MaxFixAttemptsDefault
    /\ {2, 3} \subseteq DOMAIN node_calls
    /\ CallsSucceeded(2) /\ CallsSucceeded(3)
    /\ node_status = <<FAILED, COMPLETED, COMPLETED>>
    /\ summary.failed_nodes = 1 /\ summary.completed_nodes = 2

\* C12: a failure confined to one node (the sandbox failing, a collaborator
\* call raising or answering with unusable content) never leaves execute() as
\* an exception: the node ends Failed and the rest of the order is processed.
C12_FailureStaysLocal ==
    /\ e_pc # "aborted"
    /\ r_pc = "raised" => e_pc = "running"
    /\ e_pc \in {"loop", "done"} => \A n \in InvokedSet : node_status[n] \in {COMPLETED, FAILED}

\* C13: on both sandbox backends, a call of run_python_code whose code runs
\* longer than the configured timeout returns status 'timeout', and the
\* container or subprocess that ran the code is no longer running when the
\* call returns.
C13_TimeoutStopsCode ==
    (b_pc = "returned" /\ launched /\ b_runtime > b_timeout)
        => (b_status = "timeout" /\ container # "running")

\* C14: a container launched by DockerCodeInterpreter.run_python_code has been
\* removed when the call returns, whatever the status returned.
C14_ContainerRemoved ==
    (b_pc = "returned" /\ b_backend = "docker" /\ launched) => container = "removed"

\* C15: when the first sandbox call of a task reports status 'error' (the
\* backend could not start), the task returns a failure at once: no fix or
\* redesign has been requested and the sandbox is not called again.
C15_SandboxErrorFatal ==
    (exec_result = "error" /\ sandbox_calls = 1)
        => (r_pc = "returned" /\ ~ r_result.success /\ requests = <<>>)

\* the invoked nodes whose attempt has ended: all but the one in progress
Finished == IF e_pc \in {"running", "aborted"} THEN Len(invoked) - 1 ELSE Len(invoked)

C17_ApprovedPairFolded ==
    [][ LET pr == similar_pairs[s_idx]
            key == CacheKey(pr)
            keep_id == Min(pr[1], pr[2])
            remove_id == Max(pr[1], pr[2])
        IN (/\ InPair
            /\ PairPresent(pr)
            /\ Mergeable(pr[1], pr[2])
            /\ key \in DOMAIN pair_merge_cache'
            /\ pair_merge_cache'[key])
           => (/\ dag_nodes' = dag_nodes \ {remove_id}
               /\ keep_id \in dag_nodes'
               /\ DOMAIN merge_map' = DOMAIN merge_map \cup {remove_id}
               /\ merge_map'[remove_id] = keep_id
               /\ \A r \in DOMAIN merge_map : merge_map'[r] = merge_map[r]
               /\ last_fold' = <<keep_id, remove_id>>) ]_vars

\* simplify returned after the oracle listed one pair, two siblings under the
\* same parent, and approved it: one of the two is left and the Merge Map has
\* the single entry removed id -> survivor
C17_Witness ==
    /\ s_pc = "done"
    /\ Len(similar_pairs) = 1
    /\ LET pr == similar_pairs[1]
       IN /\ pr[1] # pr[2]
          /\ \E p \in Nodes : {<<p, pr[1]>>, <<p, pr[2]>>} \subseteq tree_adjacency
          /\ pair_merge_cache[CacheKey(pr)]
          /\ dag_nodes = Nodes \ {Max(pr[1], pr[2])}
          /\ DOMAIN merge_map = {Max(pr[1], pr[2])}
          /\ merge_map[Max(pr[1], pr[2])] = Min(pr[1], pr[2])

\* C18: tree_to_dag ends with an error exactly when the tree has a dangling
\* parent reference: once the conversion is over, simplify is in its error
\* state if the adjacency names a parent that is no node of the tree, and has
\* gone on with a DAG if the tree is well formed.
C18_DanglingParentRejected ==
    s_pc # "start" => (s_pc = "error" <=> HasDanglingParent)

\* C19: a failure returned by the retry loop (the sandbox was called at least
\* once) carries the full attempt count: total_attempts equals the number of
\* sandbox calls made, and that number is max_fix_attempts.
C19_FailureAfterAllAttempts ==
    (r_pc = "returned" /\ ~ r_result.success /\ sandbox_calls > 0)
        => (r_result.total_attempts = sandbox_calls /\ sandbox_calls = max_fix_attempts)

\* C20: empty or malformed code from the code-generation collaborator counts
\* as a failed attempt and the loop goes on: a task allowed more than one
\* attempt ends in failure only when no attempt remains, that is with
\* total_attempts = max_fix_attempts, never straight after an unusable answer.
C20_UnusableCodeIsAnAttempt ==
    (r_pc = "returned" /\ ~ r_result.success /\ max_fix_attempts > 1)
        => r_result.total_attempts = max_fix_attempts

\* C21: at every moment at most max_concurrent executions of execute_task are
\* inside the section guarded by the semaphore, and every permit taken is
\* given back: the permits left are max_concurrent minus the executions
\* inside, so all of them are back when every task has completed or failed.
C21_SemaphoreBound ==
    batch_pc # "off" =>
        /\ Cardinality(InsideSemaphore) <= max_concurrent
        /\ semaphore = max_concurrent - Cardinality(InsideSemaphore)
        /\ (\A t \in Tasks : a_pc[t] = "done") => semaphore = max_concurrent

\* the semaphore is exhausted while a further task of the batch waits for a permit
C21_Witness ==
    /\ batch_pc = "gather"
    /\ Cardinality(InsideSemaphore) = max_concurrent
    /\ semaphore = 0
    /\ \E t \in Tasks : a_pc[t] = "created" /\ task_valid[t]
    /\ \E t \in Tasks : a_pc[t] = "done" /\ a_out[t] = "failed"

\* C22: execute_tasks_batch never raises and returns exactly one result per
\* submitted task, in submission order; a task whose execution failed or
\* raised, a task object of invalid format included, has a result with status
\* 'failed', and the other tasks keep their own results.
C22_BatchToleratesFailures ==
    /\ batch_pc # "raised"
    /\ batch_pc = "returned" =>
          /\ Len(processed_results) = Len(task_valid)
          /\ \A t \in Tasks :
                /\ processed_results[t][1] = t
                /\ processed_results[t][2] = IF a_out[t] = "done" THEN "done" ELSE "failed"

\* C23: for any sequence or interleaving of advance_run, auto_run and
\* cancel_run calls on one run, the number of recorded turns never exceeds
\* config.max_turns, and a run that has reached max_turns is 'finished'
\* whenever no turn is under way, unless it was cancelled or ended in error.
C23_TurnsBounded ==
    sim_status # "none" =>
        /\ Len(turns) <= max_turns
        /\ (Len(turns) >= max_turns /\ \A c \in Calls : c_pc[c] # "turn")
              => sim_status \in TerminalStatuses

\* an advance_run call returns normally in this step, made by a caller that
\* runs no other call on the run at the same time
AdvanceReturns(c) ==
    /\ sim_serial
    /\ c_kind[c] = "advance"
    /\ c_pc[c] # "returned"
    /\ c_pc'[c] = "returned"

\* the status the claim expects once the call has returned
ExpectedAfterAdvance ==
    IF \/ remaining_turns(turns') <= 0
       \/ /\ turns' # <<>>
          /\ turns'[Len(turns')] = "misaligned"
          /\ stop_on_misalignment
      THEN "finished" ELSE "idle"

\* C24 as stated: with no concurrent call on the same run, after advance_run
\* returns normally the status is 'finished' if no turns remain (or the turn
\* was judged misaligned while stop_on_misalignment is set) and 'idle'
\* otherwise.
C24_AsStated ==
    [][ \A c \in Calls : AdvanceReturns(c) => sim_status' = ExpectedAfterAdvance ]_vars

\* C24: with no concurrent call on the same run, after advance_run returns
\* normally a run that was cancelled or in error when the call began keeps that
\* status; any other run is 'finished' if no turns remain (or the last turn
\* was judged misaligned while stop_on_misalignment is set) and 'idle'
\* otherwise; the status 'running' is never left behind.
C24_StatusAfterAdvance ==
    [][ \A c \in Calls : AdvanceReturns(c) =>
           /\ sim_status' # "running"
           /\ sim_status' = IF c_pc[c] = "new" /\ sim_status \in {"cancelled", "error"}
                              THEN sim_status ELSE ExpectedAfterAdvance ]_vars

\* every call was made in turn, the run was cancelled before any turn was
\* recorded and an advance_run call on it has returned
C24_Witness ==
    /\ sim_serial
    /\ sim_status = "cancelled"
    /\ turns = <<>>
    /\ \E c \in Calls : c_kind[c] = "advance" /\ c_pc[c] = "returned"
    /\ \E c \in Calls : c_kind[c] = "cancel" /\ c_pc[c] = "returned"

\* the status changes a node may make within a run
AllowedStatusChanges ==
    {<<PENDING, RUNNING>>, <<RUNNING, COMPLETED>>, <<RUNNING, FAILED>>, <<PENDING, SKIPPED>>}

\* C25: within one run, every change of a node's status is Pending -> Running,
\* Running -> Completed, Running -> Failed or Pending -> Skipped; a node that
\* is Completed, Failed or Skipped does not change status again in that run.
C25_StatusMachine ==
    [][ (DOMAIN node_status = Nodes /\ DOMAIN node_status' = Nodes) =>
           \A n \in Nodes :
              node_status'[n] # node_status[n]
                 => <<node_status[n], node_status'[n]>> \in AllowedStatusChanges ]_vars

\* a finished run in which a node completed, a node failed and a node was
\* skipped, the first two having been executed in this run
C25_Witness ==
    /\ e_pc = "done"
    /\ \E a, b, c \in Nodes :
          /\ a \in InvokedSet /\ node_status[a] = COMPLETED
          /\ b \in InvokedSet /\ node_status[b] = FAILED
          /\ start_status[c] = "pending" /\ node_status[c] = SKIPPED

\* C26: a Pending node is marked Skipped only when its prerequisites cannot be
\* satisfied: no node skipped in a run has a prerequisite (a child in the DAG)
\* that was still Pending when the node was skipped and was executed later in
\* the same run.
C26_SkippedOnlyWhenHopeless ==
    e_pc \in {"loop", "running", "done"} =>
        \A n \in Nodes :
           (/\ node_status[n] = SKIPPED
            /\ _map_db_status_to_execution_status(start_status[n]) = PENDING)
              => \A d \in child_ids[n] : ~ (d \in InvokedSet /\ Pos(d) > Pos(n))


\* C27: nodes eligible at the same time are started in ascending identifier
\* order: while a node is running, no node with a lower identifier is
\* eligible (an eligible node is Pending with every child finished,
\* _can_execute_node; the running node itself is no longer Pending, and the
\* other nodes' statuses are those of the moment it was started)
C27_AscendingAmongEligible ==
    e_pc = "running" =>
        \A n \in Nodes : n < topo_order[e_idx] => ~ _can_execute_node(n)

\* the number of excerpts about node d in a context
Excerpts(ctx, d) == Cardinality({i \in 1..Len(ctx) : ctx[i] = d})

\* C28: the dependency context handed to the Task Executor for the running
\* node n holds exactly one excerpt for every listed dependency or child of n
\* that has an execution record with status Completed, and none for any other
\* node (a Failed or Skipped prerequisite contributes nothing)
C28_ContextOfCompletedPrerequisites ==
    e_pc = "running" =>
        LET n == topo_order[e_idx]
            ctx == _collect_dependency_context(n)
        IN \A d \in Nodes :
              Excerpts(ctx, d) =
                 IF d \in tree_deps[n] \cup child_ids[n] /\ HasCompletedRecord(d)
                 THEN 1 ELSE 0

\* a node runs with a Completed node that is both its child and its listed
\* dependency, and with a Failed prerequisite that has a record
C28_Witness ==
    /\ e_pc = "running"
    /\ LET n == topo_order[e_idx]
       IN /\ \E d \in tree_deps[n] \cap child_ids[n] :
                HasCompletedRecord(d) /\ Excerpts(_collect_dependency_context(n), d) = 1
          /\ \E f \in tree_deps[n] \cup child_ids[n] :
                f \in DOMAIN node_records /\ node_records[f].status = FAILED

\* the nodes the run found persisted as completed
CompletedAtStart ==
    {d \in Nodes : _map_db_status_to_execution_status(start_status[d]) = COMPLETED}

\* C29: from the first pass of the loop on, every node persisted as completed
\* when the run began has its execution record in memory, with status
\* Completed and the persisted results, and a node that runs with such a node
\* as child or listed dependency receives one excerpt of it in its context
C29_CompletedRecordsReloaded ==
    e_pc \in {"loop", "running"} =>
        \A d \in CompletedAtStart :
           /\ HasCompletedRecord(d)
           /\ node_records[d].generated_files = db_result[d].generated_files
           /\ (e_pc = "running" /\ d \in tree_deps[topo_order[e_idx]] \cup child_ids[topo_order[e_idx]])
                 => Excerpts(_collect_dependency_context(topo_order[e_idx]), d) = 1

\* a second run executes a node whose prerequisite was completed, with a
\* generated file, by the first run
C29_Witness ==
    /\ run = 2
    /\ e_pc = "running"
    /\ \E d \in CompletedAtStart \cap (tree_deps[topo_order[e_idx]] \cup child_ids[topo_order[e_idx]]) :
          /\ HasCompletedRecord(d)
          /\ node_records[d].generated_files = {d}
          /\ Excerpts(_collect_dependency_context(topo_order[e_idx]), d) = 1

\* C30: whatever the similarity oracle answers, simplify returns, and its merge
\* loop never starts more than 2 x N iterations, N the number of nodes of the
\* input tree
C30_SimplifyTerminates ==
    /\ [](s_iter <= 2 * NumNodes)
    /\ <>(s_pc = "done")

\* simplify returned after as many merges as the tree allows: N - 1 merges, the
\* last iteration being the N-th
C30_Witness ==
    /\ s_pc = "done"
    /\ Cardinality(dag_nodes) = 1
    /\ s_iter = NumNodes

\* C31: a step of simplify that folds the pair it is at leaves the node with
\* the lower id as survivor; the survivor's parent, child and dependency sets
\* are the unions of both nodes' sets without the two merged ids; the removed
\* id is neither a node of the DAG nor in the parent, child or dependency set
\* of a remaining node; and the Merge Map sends the removed id to the survivor
C31_FoldResult ==
    [][ (s_pc = "loop" /\ dag_nodes' # dag_nodes) =>
          LET pr == similar_pairs[s_idx]
              survivor == Min(pr[1], pr[2])
              removed == Max(pr[1], pr[2])
          IN /\ dag_nodes' = dag_nodes \ {removed}
             /\ survivor \in dag_nodes'
             /\ parent_ids'[survivor] =
                   (parent_ids[survivor] \cup parent_ids[removed]) \ {survivor, removed}
             /\ child_ids'[survivor] =
                   (child_ids[survivor] \cup child_ids[removed]) \ {survivor, removed}
             /\ dependencies'[survivor] =
                   (dependencies[survivor] \cup dependencies[removed]) \ {survivor, removed}
             /\ \A n \in dag_nodes' :
                   removed \notin parent_ids'[n] \cup child_ids'[n] \cup dependencies'[n]
             /\ merge_map'[removed] = survivor ]_vars

\* simplify folded two nodes while a third node listed the removed one as a
\* dependency: the third node now lists the survivor
C31_Witness ==
    /\ s_pc = "done"
    /\ last_fold # <<>>
    /\ last_fold[2] \notin dag_nodes
    /\ merge_map[last_fold[2]] = last_fold[1]
    /\ \E n \in dag_nodes \ {last_fold[1]} :
          last_fold[2] \in tree_deps[n] /\ last_fold[1] \in dependencies[n]

\* C32: in the DAG that simplify returns, every entry of the Merge Map sends
\* a removed id to the id of a node that is in the DAG
C32_MergeMapPointsIntoDag ==
    s_pc = "done" => \A r \in DOMAIN merge_map : merge_map[r] \in dag_nodes

\* the unordered pair of ids of an entry of should_merge_calls
AskedPair(i) == {should_merge_calls[i][1], should_merge_calls[i][2]}

\* C33: within one simplify call should_merge is never asked twice about
\* the same unordered pair of node ids
C33_AskedOncePerPair ==
    \A i, j \in 1..Len(should_merge_calls) : i # j => AskedPair(i) # AskedPair(j)

\* simplify returned after two iterations; a pair that was approved but could
\* not be merged was met again in the second iteration, and should_merge
\* was asked once for each of the two pairs
C33_Witness ==
    /\ s_pc = "done"
    /\ s_iter = 2
    /\ Len(should_merge_calls) = 2
    /\ \E key \in DOMAIN pair_merge_cache :
          /\ pair_merge_cache[key]
          /\ key[1] \in dag_nodes /\ key[2] \in dag_nodes
          /\ key[1] # key[2]
          /\ similar_pairs[1] \in {key, <<key[2], key[1]>>}

\* C34: when execute() has returned, no node is Pending or Running, and the
\* completed, failed and skipped counts of the returned summary add up to
\* its total_nodes
C34_AllTerminalOnReturn ==
    e_pc = "done" =>
        /\ \A n \in Nodes : node_status[n] \in {COMPLETED, FAILED, SKIPPED}
        /\ summary.completed_nodes + summary.failed_nodes + summary.skipped_nodes
              = summary.total_nodes

\* execute() returned a summary with one completed, one failed and one
\* skipped node
C34_Witness ==
    /\ e_pc = "done"
    /\ summary.completed_nodes = 1
    /\ summary.failed_nodes = 1
    /\ summary.skipped_nodes = 1
    /\ \E n \in Nodes : node_status[n] = SKIPPED /\ start_status[n] = "running"

\* C35: within one run of execute() the Task Executor is invoked at most once
\* for each node: no node appears twice among the invocations of the run
C35_InvokedOncePerNode ==
    \A i, j \in 1..Len(invoked) : i # j => invoked[i] # invoked[j]

\* a second run on a plan with a dependency edge invoked two nodes, one of
\* them persisted as running, after the first run had invoked a node
C35_Witness ==
    /\ run = 2
    /\ e_pc = "done"
    /\ Len(invoked) = 2
    /\ HasDepEdges
    /\ \E n \in SeqToSet(invoked) : start_status[n] = "running"

\* the nodes that the current run found Pending and marked Skipped
SkippedByRun ==
    {n \in DOMAIN node_status :
        /\ node_status[n] = SKIPPED
        /\ _map_db_status_to_execution_status(start_status[n]) = PENDING}

\* C36: a step that marks a node Skipped calls update_task for no node and
\* leaves the backing store as it was; and a node the run has marked Skipped
\* still has its persisted status of the beginning of the run, which the next
\* execute() of the plan initialises as Pending
C36_SkipNotPersisted ==
    /\ [][ (DOMAIN node_status = Nodes /\ DOMAIN node_status' = Nodes
             /\ \E n \in Nodes : node_status[n] # SKIPPED /\ node_status'[n] = SKIPPED)
           => UNCHANGED <<db_status, db_result, disk_files, update_log>> ]_vars
    /\ [](\A n \in SkippedByRun :
             /\ db_status[n] = start_status[n]
             /\ \A i \in 1..Len(update_log) : update_log[i][1] # n
             /\ _map_db_status_to_execution_status(db_status[n]) = PENDING)

\* the first run returned with one node skipped and the two others executed;
\* the second run starts with that node, and only it, Pending
C36_Witness ==
    /\ run = 2
    /\ e_pc = "loop"
    /\ e_idx = 1
    /\ prev_summary # NoSummary
    /\ prev_summary.skipped_nodes = 1
    /\ Cardinality({n \in Nodes : node_status[n] = PENDING}) = 1
    /\ \A n \in Nodes : node_status[n] # SKIPPED
    /\ \A n \in Nodes : start_status[n] \in {"pending", "completed", "failed"}

\* the parent and child relations mirror each other, name nodes of the DAG
\* only, and make no node its own parent or child
MirroredAndClosed ==
    /\ \A a \in dag_nodes, b \in dag_nodes : b \in child_ids[a] <=> a \in parent_ids[b]
    /\ \A a \in dag_nodes : parent_ids[a] \cup child_ids[a] \subseteq dag_nodes
    /\ \A a \in dag_nodes : a \notin parent_ids[a] \cup child_ids[a]

C38_CancelledStays ==
    [][ sim_status = "cancelled" => sim_status' = "cancelled" ]_vars

============================================================================
